---- MODULE Spec2Model ----
(***************************************************************************)
(* Terminal-context resolution, notification dispatch and click routing of *)
(* macos-notify-mcp (src/src/notifier.ts, the MCP/CLI callers and the      *)
(* native MacOSNotifyMCP application).                                      *)
(*                                                                         *)
(* External commands are inputs: every command the code runs has an        *)
(* outcome [st, out] with st one of "ok" (exit code 0), "exit" (non-zero   *)
(* exit) or "spawn" (the process could not be launched), and out the text  *)
(* written to stdout.  The text is parsed the way the code parses it.      *)
(***************************************************************************)
EXTENDS Integers, Sequences, FiniteSets, TLC

VARIABLES env, sys, appPath, defaultTitle, titleTask, call, notifs, pending, proc

vars == <<env, sys, appPath, defaultTitle, titleTask, call, notifs, pending, proc>>

(***************************************************************************)
(* JavaScript string and number primitives used by notifier.ts             *)
(***************************************************************************)

\* The value of an absent property, argument or environment variable.
Undefined == "<undefined>"

\* Number.NaN, kept apart from every integer the model uses.
NaN == -1

IsSpace(c) == c \in {" ", "\n", "\t"}

\* String.prototype.includes
Includes(s, pat) ==
  \E i \in 1..(Len(s) - Len(pat) + 1) : SubSeq(s, i, i + Len(pat) - 1) = pat

RECURSIVE TrimLeft(_)
TrimLeft(s) ==
  IF Len(s) > 0 /\ IsSpace(SubSeq(s, 1, 1)) THEN TrimLeft(SubSeq(s, 2, Len(s))) ELSE s

RECURSIVE TrimRight(_)
TrimRight(s) ==
  IF Len(s) > 0 /\ IsSpace(SubSeq(s, Len(s), Len(s)))
  THEN TrimRight(SubSeq(s, 1, Len(s) - 1)) ELSE s

\* String.prototype.trim
Trim(s) == TrimRight(TrimLeft(s))

\* The first position from i on where s holds sep, 0 when there is none
RECURSIVE IndexOfChar(_, _, _)
IndexOfChar(s, sep, i) ==
  IF i > Len(s) THEN 0
  ELSE IF SubSeq(s, i, i) = sep THEN i
  ELSE IndexOfChar(s, sep, i + 1)

\* String.prototype.split(sep) for a one-character separator: every
\* occurrence of sep ends a piece, empty pieces are kept.
RECURSIVE SplitChar(_, _)
SplitChar(s, sep) ==
  LET i == IndexOfChar(s, sep, 1)
  IN  IF i = 0 THEN <<s>>
      ELSE <<SubSeq(s, 1, i - 1)>> \o SplitChar(SubSeq(s, i + 1, Len(s)), sep)

\* The first position from i on where s holds white space, 0 when none
RECURSIVE IndexOfSpace(_, _)
IndexOfSpace(s, i) ==
  IF i > Len(s) THEN 0
  ELSE IF IsSpace(SubSeq(s, i, i)) THEN i
  ELSE IndexOfSpace(s, i + 1)

\* String.prototype.split(/\s+/): a maximal run of white space is one
\* separator; a leading or trailing run yields an empty first or last piece.
RECURSIVE SplitSpaces(_)
SplitSpaces(s) ==
  LET i == IndexOfSpace(s, 1)
  IN  IF i = 0 THEN <<s>>
      ELSE <<SubSeq(s, 1, i - 1)>> \o SplitSpaces(TrimLeft(SubSeq(s, i, Len(s))))

\* Array.prototype.filter(Boolean) on an array of strings
FilterBoolean(seq) == SelectSeq(seq, LAMBDA x : x # "")

Digits == <<"0", "1", "2", "3", "4", "5", "6", "7", "8", "9">>

IsDigit(c) == \E d \in 1..10 : Digits[d] = c

DigitVal(c) == (CHOOSE d \in 1..10 : Digits[d] = c) - 1

\* The value of a non-empty string of decimal digits
RECURSIVE DigitsVal(_)
DigitsVal(s) ==
  IF Len(s) = 0 THEN 0
  ELSE 10 * DigitsVal(SubSeq(s, 1, Len(s) - 1)) + DigitVal(SubSeq(s, Len(s), Len(s)))

\* The longest prefix of s made of decimal digits
RECURSIVE DigitPrefix(_)
DigitPrefix(s) ==
  IF Len(s) > 0 /\ IsDigit(SubSeq(s, 1, 1))
  THEN SubSeq(s, 1, 1) \o DigitPrefix(SubSeq(s, 2, Len(s)))
  ELSE ""

\* Number(x) for the values a split piece can take: undefined is NaN, a
\* blank string is 0, a string of digits is its value, anything else NaN.
ToNumber(x) ==
  IF x = Undefined THEN NaN
  ELSE LET t == Trim(x)
       IN  IF t = "" THEN 0
           ELSE IF DigitPrefix(t) = t THEN DigitsVal(t)
           ELSE NaN

\* Number.parseInt(x): the value of the leading digits after leading white
\* space, NaN when there are none.
ParseInt(x) ==
  IF x = Undefined THEN NaN
  ELSE LET p == DigitPrefix(TrimLeft(x))
       IN  IF p = "" THEN NaN ELSE DigitsVal(p)

\* a > b on numbers: false as soon as one side is NaN
NumGreater(a, b) == a # NaN /\ b # NaN /\ a > b

\* seq[i] of a JavaScript array: undefined beyond the end
At(seq, i) == IF i <= Len(seq) THEN seq[i] ELSE Undefined

\* Truthiness of a string-or-undefined value
Truthy(x) == x # Undefined /\ x # ""

\* Number.prototype.toString for a natural number
RECURSIVE NatToString(_)
NatToString(n) ==
  IF n < 10 THEN Digits[n + 1]
  ELSE NatToString(n \div 10) \o Digits[(n % 10) + 1]

(***************************************************************************)
(* Command Runner.  A settled promise is [kind, val, cmds]: kind "ok" for  *)
(* a resolved and "err" for a rejected promise, val a sequence holding the *)
(* value (empty for null/void), cmds the commands spawned on the way, in   *)
(* order.  A command is the sequence of its program and arguments.         *)
(***************************************************************************)

\* The closed set TerminalType
TerminalType == {"VSCode", "Cursor", "iTerm2", "Terminal", "alacritty", "Unknown"}

CmdFailed == [st |-> "exit", out |-> ""]

CmdSessionName == <<"tmux", "display-message", "-p", "#{session_name}">>
CmdWindowIndex == <<"tmux", "display-message", "-p", "#{window_index}">>
CmdPaneIndex   == <<"tmux", "display-message", "-p", "#{pane_index}">>
CmdClientTerm  == <<"tmux", "display-message", "-p", "#{client_termname}">>
CmdShowEnv     == <<"tmux", "show-environment", "-g", "TERM_PROGRAM">>
CmdListClients(session) ==
  <<"tmux", "list-clients", "-t", session, "-F",
    "#{client_tty}|#{client_session}|#{client_activity}">>
CmdListSessions == <<"tmux", "list-sessions", "-F", "#{session_name}">>
CmdLsof(tty)   == <<"lsof", tty>>
CmdPsComm(pid) == <<"ps", "-p", pid, "-o", "comm=">>
CmdPsTree(pid) == <<"ps", "-p", pid, "-o", "ppid=,comm=">>
CmdOpen(args)  == <<"/usr/bin/open">> \o args
CmdGitRemote   == <<"git", "config", "--get", "remote.origin.url">>
CmdGitRoot     == <<"git", "rev-parse", "--show-toplevel">>

\* The outcome the operating system gives a command in world s.
Outcome(s, cmd) ==
  CASE cmd = CmdSessionName -> s.sessionName
    [] cmd = CmdWindowIndex -> s.windowIndex
    [] cmd = CmdPaneIndex   -> s.paneIndex
    [] cmd = CmdListSessions -> s.listSessions
    [] cmd = CmdClientTerm  -> s.clientTerm
    [] cmd = CmdShowEnv     -> s.showEnv
    [] cmd = CmdGitRemote   -> s.gitRemote
    [] cmd = CmdGitRoot     -> s.gitRoot
    [] cmd[1] = "tmux" /\ cmd[2] = "list-clients" -> s.listClients
    [] cmd[1] = "lsof" ->
         IF cmd[2] \in DOMAIN s.lsof THEN s.lsof[cmd[2]] ELSE CmdFailed
    [] cmd[1] = "ps" /\ cmd[5] = "comm=" ->
         IF cmd[3] \in DOMAIN s.psComm THEN s.psComm[cmd[3]] ELSE CmdFailed
    [] cmd[1] = "ps" /\ cmd[5] = "ppid=,comm=" ->
         IF cmd[3] \in DOMAIN s.psTree THEN s.psTree[cmd[3]] ELSE CmdFailed
    [] cmd[1] = "/usr/bin/open" -> s.open
    [] cmd[1] = "/usr/bin/osascript" -> s.osascript
    [] Len(cmd) = 4 /\ cmd[2] = "switch-client" -> s.switchClient
    [] OTHER -> CmdFailed

Resolved(v, cmds) == [kind |-> "ok", val |-> <<v>>, msg |-> "", cmds |-> cmds]
ResolvedNull(cmds) == [kind |-> "ok", val |-> <<>>, msg |-> "", cmds |-> cmds]
Rejected(msg, cmds) == [kind |-> "err", val |-> <<>>, msg |-> msg, cmds |-> cmds]

\* The settlement of the promise of a command that ended with outcome o
Settle(o, cmd) ==
  IF o.st = "ok" THEN Resolved(o.out, <<cmd>>)
  ELSE IF o.st = "exit" THEN Rejected("Command failed: " \o cmd[1], <<cmd>>)
  ELSE Rejected("spawn " \o cmd[1] \o " ENOENT", <<cmd>>)

\* No runCommand call has been made
NoProc ==
  [st |-> "none", command |-> "", args |-> <<>>, launches |-> FALSE, spawns |-> 0,
   stdout |-> "", stderr |-> "", events |-> <<>>, calls |-> 0, result |-> <<>>]

\* runCommand: one spawn; resolves with stdout on exit code 0, rejects on
\* any other exit code and on a spawn error.
runCommand(s, cmd) == Settle(Outcome(s, cmd), cmd)

\* try { body } catch { return fallback }
Catch(r, fallback) ==
  IF r.kind = "err"
  THEN [kind |-> "ok", val |-> fallback, msg |-> "", cmds |-> r.cmds]
  ELSE r

\* r, with the commands of the steps that ran before it put in front
After(cmds, r) == [r EXCEPT !.cmds = cmds \o r.cmds]

(***************************************************************************)
(* Terminal Resolver                                                       *)
(***************************************************************************)

\* One client from the fields of its line
ClientOf(f) ==
  [tty |-> At(f, 1), session |-> At(f, 2), activity |-> ToNumber(At(f, 3))]

\* One parsed line of the list-clients output
ParseClient(line) == ClientOf(SplitChar(line, "|"))

ClientsOf(lines) == [i \in 1..Len(lines) |-> ParseClient(lines[i])]

ParseClients(out) == ClientsOf(FilterBoolean(SplitChar(Trim(out), "\n")))

\* A reduce that lets a later client with the same activity win
RECURSIVE ReduceActiveLastWins(_, _, _)
ReduceActiveLastWins(clients, acc, i) ==
  IF i > Len(clients) THEN acc
  ELSE ReduceActiveLastWins(clients,
                            IF ~NumGreater(acc.activity, clients[i].activity)
                            THEN clients[i] ELSE acc,
                            i + 1)

\* clients.reduce((prev, curr) => curr.activity > prev.activity ? curr : prev)
\* on a non-empty array: acc is the value carried into position i.
RECURSIVE ReduceActive(_, _, _)
ReduceActive(clients, acc, i) ==
  IF i > Len(clients) THEN acc
  ELSE ReduceActive(clients,
                    IF NumGreater(clients[i].activity, acc.activity)
                    THEN clients[i] ELSE acc,
                    i + 1)

\* The most recently active of the parsed clients; reduce throws a
\* TypeError on an empty array.
PickActiveClient(clients, cmds) ==
  IF Len(clients) = 0
  THEN Rejected("TypeError: Reduce of empty array with no initial value", cmds)
  ELSE Resolved(ReduceActive(clients, clients[1], 2), cmds)

\* getActiveClientInfo once list-clients has settled as r2
AfterListClients(r2) ==
  IF r2.kind = "err" THEN r2 ELSE PickActiveClient(ParseClients(r2.val[1]), r2.cmds)

\* getActiveClientInfo once the session-name query has settled as r1
AfterSessionName(s, r1) ==
  IF r1.kind = "err" THEN r1
  ELSE IF r1.val[1] = "" THEN ResolvedNull(r1.cmds)
  ELSE AfterListClients(After(r1.cmds, runCommand(s, CmdListClients(Trim(r1.val[1])))))

getActiveClientInfoBody(e, s) ==
  IF ~Truthy(e.TMUX_PANE) THEN ResolvedNull(<<>>)
  ELSE AfterSessionName(s, runCommand(s, CmdSessionName))

getActiveClientInfo(e, s) == Catch(getActiveClientInfoBody(e, s), <<>>)

\* The table with the application name in the place of the substring "Code"
ClientCommandTerminalByAppName(command) ==
  IF Includes(command, "Cursor") THEN "Cursor"
  ELSE IF Includes(command, "Visual Studio Code") THEN "VSCode"
  ELSE IF Includes(command, "iTerm2") THEN "iTerm2"
  ELSE IF Includes(command, "Terminal") THEN "Terminal"
  ELSE IF Includes(command, "alacritty") THEN "alacritty"
  ELSE "Unknown"

\* The terminal-name table of detectTerminalFromClient
ClientCommandTerminal(command) ==
  IF Includes(command, "Cursor") THEN "Cursor"
  ELSE IF Includes(command, "Code") THEN "VSCode"
  ELSE IF Includes(command, "iTerm2") THEN "iTerm2"
  ELSE IF Includes(command, "Terminal") THEN "Terminal"
  ELSE IF Includes(command, "alacritty") THEN "alacritty"
  ELSE "Unknown"

RECURSIVE ScanLsofLines(_, _, _, _)

\* The rest of one loop iteration once ps has settled and, when it
\* resolved, the table has given t for its output
AfterPsComm(s, lines, i, ps, t) ==
  IF ps.kind = "err" THEN ps
  ELSE IF t # "Unknown" THEN Resolved(t, ps.cmds)
  ELSE ScanLsofLines(s, lines, i + 1, ps.cmds)

\* ps -p pid -o comm= and the table lookup on its trimmed output
MatchPsComm(s, lines, i, ps) ==
  AfterPsComm(s, lines, i, ps,
              IF ps.kind = "err" THEN "Unknown" ELSE ClientCommandTerminal(Trim(ps.val[1])))

\* One loop iteration on the line split into parts
ScanLsofLine(s, lines, i, cmds, parts) ==
  IF Len(parts) < 2 THEN ScanLsofLines(s, lines, i + 1, cmds)
  ELSE MatchPsComm(s, lines, i, After(cmds, runCommand(s, CmdPsComm(parts[2]))))

\* The for loop of detectTerminalFromClient from line i on
ScanLsofLines(s, lines, i, cmds) ==
  IF i > Len(lines) THEN Resolved("Unknown", cmds)
  ELSE ScanLsofLine(s, lines, i, cmds, SplitSpaces(lines[i]))

\* lsofOutput.trim().split('\n').slice(1)
LsofLines(all) == SubSeq(all, 2, Len(all))

\* detectTerminalFromClient once lsof has settled as r
AfterLsof(s, r) ==
  IF r.kind = "err" THEN r
  ELSE ScanLsofLines(s, LsofLines(SplitChar(Trim(r.val[1]), "\n")), 1, r.cmds)

detectTerminalFromClientBody(s, clientTty) == AfterLsof(s, runCommand(s, CmdLsof(clientTty)))

detectTerminalFromClient(s, clientTty) ==
  Catch(detectTerminalFromClientBody(s, clientTty), <<"Unknown">>)

\* Strategy 1 with TERM_PROGRAM looked at before the specific markers
EnvMarkerTerminalGenericFirst(e) ==
  IF Truthy(e.TERM_PROGRAM) /\ e.TERM_PROGRAM = "iTerm.app" THEN "iTerm2"
  ELSE IF Truthy(e.TERM_PROGRAM) /\ e.TERM_PROGRAM = "Apple_Terminal" THEN "Terminal"
  ELSE IF Truthy(e.TERM_PROGRAM) /\ e.TERM_PROGRAM = "alacritty" THEN "alacritty"
  ELSE IF Truthy(e.CURSOR_TRACE_ID) THEN "Cursor"
  ELSE IF Truthy(e.VSCODE_IPC_HOOK_CLI)
       THEN (IF Includes(e.VSCODE_IPC_HOOK_CLI, "Cursor") THEN "Cursor" ELSE "VSCode")
  ELSE IF Truthy(e.VSCODE_REMOTE) \/ Truthy(e.VSCODE_PID) THEN "VSCode"
  ELSE IF Truthy(e.ALACRITTY_WINDOW_ID) \/ Truthy(e.ALACRITTY_SOCKET) THEN "alacritty"
  ELSE ""

\* Strategy 1, the environment markers in their fixed order; "" when none
\* of them concludes.
EnvMarkerTerminal(e) ==
  IF Truthy(e.CURSOR_TRACE_ID) THEN "Cursor"
  ELSE IF Truthy(e.VSCODE_IPC_HOOK_CLI)
       THEN (IF Includes(e.VSCODE_IPC_HOOK_CLI, "Cursor") THEN "Cursor" ELSE "VSCode")
  ELSE IF Truthy(e.VSCODE_REMOTE) \/ Truthy(e.VSCODE_PID) THEN "VSCode"
  ELSE IF Truthy(e.ALACRITTY_WINDOW_ID) \/ Truthy(e.ALACRITTY_SOCKET) THEN "alacritty"
  ELSE IF Truthy(e.TERM_PROGRAM) /\ e.TERM_PROGRAM = "iTerm.app" THEN "iTerm2"
  ELSE IF Truthy(e.TERM_PROGRAM) /\ e.TERM_PROGRAM = "Apple_Terminal" THEN "Terminal"
  ELSE IF Truthy(e.TERM_PROGRAM) /\ e.TERM_PROGRAM = "alacritty" THEN "alacritty"
  ELSE ""

\* The show-environment step once its query has settled as ce; its own
\* try/catch swallows a failure.  "" when inconclusive.
AfterShowEnv(ce) ==
  IF ce.kind = "err" THEN Catch(ce, <<"">>)
  ELSE IF Includes(ce.val[1], "TERM_PROGRAM=iTerm.app") THEN Resolved("iTerm2", ce.cmds)
  ELSE IF Includes(ce.val[1], "TERM_PROGRAM=Apple_Terminal") THEN Resolved("Terminal", ce.cmds)
  ELSE Resolved("", ce.cmds)

\* The client-termname step once its query has settled as ct: a failing
\* query rejects, a termname without a known substring goes on to
\* show-environment.
AfterClientTerm(s, ct) ==
  IF ct.kind = "err" THEN ct
  ELSE IF Includes(ct.val[1], "iterm") \/ Includes(ct.val[1], "iTerm")
       THEN Resolved("iTerm2", ct.cmds)
  ELSE IF Includes(ct.val[1], "Apple_Terminal") THEN Resolved("Terminal", ct.cmds)
  ELSE AfterShowEnv(After(ct.cmds, runCommand(s, CmdShowEnv)))

\* The client-termname and show-environment part of strategy 2
TmuxTermNameBody(s, cmds) == AfterClientTerm(s, After(cmds, runCommand(s, CmdClientTerm)))

\* Strategy 2 once the TTY-process match has given dt
AfterTtyMatch(s, dt) ==
  IF dt.val[1] # "Unknown" THEN dt ELSE TmuxTermNameBody(s, dt.cmds)

\* Strategy 2 once getActiveClientInfo has given ci
AfterClientInfo(s, ci) ==
  IF ci.val = <<>> THEN TmuxTermNameBody(s, ci.cmds)
  ELSE AfterTtyMatch(s, After(ci.cmds, detectTerminalFromClient(s, ci.val[1].tty)))

\* The body of the try block of strategy 2
TmuxStrategyBody(e, s) == AfterClientInfo(s, getActiveClientInfo(e, s))

\* Strategy 2 without its try/catch: a failing query rejects the resolution
TmuxStrategyUncaught(e, s) ==
  IF Truthy(e.TMUX) THEN TmuxStrategyBody(e, s) ELSE Resolved("", <<>>)

\* Strategy 2: only inside the multiplexer; every failure is swallowed.
TmuxStrategy(e, s) ==
  IF Truthy(e.TMUX) THEN Catch(TmuxStrategyBody(e, s), <<"">>)
  ELSE Resolved("", <<>>)

\* const maxDepth = 10
maxDepth == 10

\* The terminal-name table of the process-tree walk; "" when no entry matches
TreeCommandTerminal(command) ==
  IF Includes(command, "Cursor") THEN "Cursor"
  ELSE IF Includes(command, "Code") \/ Includes(command, "code-insiders") THEN "VSCode"
  ELSE IF Includes(command, "iTerm2") THEN "iTerm2"
  ELSE IF Includes(command, "Terminal") THEN "Terminal"
  ELSE ""

RECURSIVE TreeWalk(_, _, _, _)

\* One hop with the parsed parent id and command name
TreeHop(s, i, cmds, ppid, command) ==
  IF ppid = NaN \/ ppid = 0 \/ ppid = 1 THEN Resolved("Unknown", cmds)
  ELSE IF Truthy(command) /\ TreeCommandTerminal(command) # ""
       THEN Resolved(TreeCommandTerminal(command), cmds)
  ELSE TreeWalk(s, ppid, i + 1, cmds)

\* psOutput.trim().split(/\s+/, 2)
TreeParts(s, i, cmds, parts) == TreeHop(s, i, cmds, ParseInt(At(parts, 1)), At(parts, 2))

\* One hop once ps has settled
AfterPsTree(s, i, ps) ==
  IF ps.kind = "err" THEN ps
  ELSE TreeParts(s, i, ps.cmds, SplitSpaces(Trim(ps.val[1])))

\* A walk that allows one more iteration
TreeWalkDeeper(s, currentPid, i, cmds) ==
  IF i >= maxDepth + 1 THEN Resolved("Unknown", cmds)
  ELSE AfterPsTree(s, i, After(cmds, runCommand(s, CmdPsTree(NatToString(currentPid)))))

\* The for loop of the process-tree walk from iteration i (0-based) on
TreeWalk(s, currentPid, i, cmds) ==
  IF i >= maxDepth THEN Resolved("Unknown", cmds)
  ELSE AfterPsTree(s, i, After(cmds, runCommand(s, CmdPsTree(NatToString(currentPid)))))

\* Strategy 3 without its try/catch
TreeStrategyUncaught(s, cmds) == TreeWalk(s, s.pid, 0, cmds)

\* Strategy 3: the walk, its failures swallowed
TreeStrategy(s, cmds) == Catch(TreeWalk(s, s.pid, 0, cmds), <<"Unknown">>)

\* The resolution once strategy 2 has given t
AfterTmuxStrategy(s, t) ==
  IF t.kind = "err" THEN t
  ELSE IF t.val[1] # "" THEN t
  ELSE TreeStrategy(s, t.cmds)

\* The resolution with strategy 2 tried before the result of strategy 1 is
\* looked at
AfterEnvMarkersTmuxFirst(e, s, marker) ==
  IF TmuxStrategy(e, s).val[1] # "" THEN TmuxStrategy(e, s)
  ELSE IF marker # "" THEN Resolved(marker, TmuxStrategy(e, s).cmds)
  ELSE TreeStrategy(s, TmuxStrategy(e, s).cmds)

\* The resolution once strategy 1 has given marker
AfterEnvMarkers(e, s, marker) ==
  IF marker # "" THEN Resolved(marker, <<>>)
  ELSE AfterTmuxStrategy(s, TmuxStrategy(e, s))

\* detectTerminalEmulator: first conclusive strategy wins
detectTerminalEmulator(e, s) == AfterEnvMarkers(e, s, EnvMarkerTerminal(e))

getTerminalEmulator(e, s) == detectTerminalEmulator(e, s)

(***************************************************************************)
(* Notification Dispatcher                                                 *)
(***************************************************************************)

\* private defaultTitle = 'macos-notify-mcp'
LiteralDefaultTitle == "macos-notify-mcp"

\* A NotificationOptions object; an absent property is Undefined.
Options(title, message, sound, session, window, pane) ==
  [title |-> title, message |-> message, sound |-> sound,
   session |-> session, window |-> window, pane |-> pane]

\* A tail that passes the window and the pane whether or not a session is
\* given
CoordinateArgsUngated(o) ==
  (IF Truthy(o.session) THEN <<"-s", o.session>> ELSE <<>>)
  \o (IF o.window # Undefined /\ o.window # "" THEN <<"-w", o.window>> ELSE <<>>)
  \o (IF o.pane # Undefined /\ o.pane # "" THEN <<"-p", o.pane>> ELSE <<>>)

\* The -s/-w/-p tail of the argument list
CoordinateArgs(o) ==
  IF Truthy(o.session)
  THEN <<"-s", o.session>>
       \o (IF o.window # Undefined /\ o.window # "" THEN <<"-w", o.window>> ELSE <<>>)
       \o (IF o.pane # Undefined /\ o.pane # "" THEN <<"-p", o.pane>> ELSE <<>>)
  ELSE <<>>

\* The argument list handed to /usr/bin/open
OpenArgs(path, dflt, o, terminal) ==
  <<"-n", path, "--args",
    "-t", IF o.title = Undefined THEN dflt ELSE o.title,
    "-m", o.message,
    "--sound", IF o.sound = Undefined THEN "Glass" ELSE o.sound,
    "--terminal", terminal>>
  \o CoordinateArgs(o)

\* runCommand('/usr/bin/open', args) with launch outcome st
runOpen(st, args) ==
  IF st = "ok" THEN Resolved("", <<CmdOpen(args)>>)
  ELSE IF st = "exit" THEN Rejected("Command failed: /usr/bin/open", <<CmdOpen(args)>>)
  ELSE Rejected("spawn /usr/bin/open ENOENT", <<CmdOpen(args)>>)

\* The launch, once the terminal has been resolved as t; val carries the
\* resolved terminal.
LaunchWith(path, dflt, o, openSt, t) ==
  IF t.kind = "err" THEN t
  ELSE [After(t.cmds, runOpen(openSt, OpenArgs(path, dflt, o, t.val[1])))
          EXCEPT !.val = t.val]

\* A sendNotification without the appPath test
sendNotificationUnchecked(e, s, path, dflt, o, openSt) ==
  LaunchWith(path, dflt, o, openSt, detectTerminalEmulator(e, s))

\* sendNotification(options) of a notifier with appPath path and default
\* title dflt, in environment e and world s, the launch ending with openSt
sendNotification(e, s, path, dflt, o, openSt) ==
  IF path = "" THEN Rejected("MacOSNotifyMCP.app not found", <<>>)
  ELSE LaunchWith(path, dflt, o, openSt, detectTerminalEmulator(e, s))

\* The places the constructor looks for the application in: next to the
\* installed package, then under the working directory
PackageAppPath == "/pkg/MacOSNotifyMCP/MacOSNotifyMCP.app"
CwdAppPath == "/cwd/MacOSNotifyMCP/MacOSNotifyMCP.app"
possiblePaths == <<PackageAppPath, CwdAppPath>>

\* The for loop over possiblePaths from index i on: the first path that
\* exists, appPath staying '' when none does
RECURSIVE FirstExisting(_, _, _)
FirstExisting(files, paths, i) ==
  IF i > Len(paths) THEN ""
  ELSE IF paths[i] \in files THEN paths[i]
  ELSE FirstExisting(files, paths, i + 1)

\* if (!this.appPath) this.appPath = possiblePaths[0]
DefaultedAppPath(found) == IF found = "" THEN possiblePaths[1] ELSE found

\* A constructor that takes every custom path it is given, the empty one
\* too
ConstructAppPathAsGiven(files, customAppPath) ==
  IF customAppPath # Undefined THEN customAppPath
  ELSE DefaultedAppPath(FirstExisting(files, possiblePaths, 1))

\* The appPath the constructor sets, called with customAppPath where files
\* exist
ConstructAppPath(files, customAppPath) ==
  IF Truthy(customAppPath) THEN customAppPath
  ELSE DefaultedAppPath(FirstExisting(files, possiblePaths, 1))

(***************************************************************************)
(* Default-Title Resolver                                                  *)
(***************************************************************************)

\* The characters of the class [\w-]
WordChars == "abcdefghijklmnopqrstuvwxyzABCDEFGHIJKLMNOPQRSTUVWXYZ0123456789_-"

IsWordChar(c) == Includes(WordChars, c)

\* The position where the run of [\w-] characters that ends at j starts;
\* j + 1 when s[j] is not such a character
RECURSIVE WordRunStart(_, _)
WordRunStart(s, j) ==
  IF j >= 1 /\ IsWordChar(SubSeq(s, j, j)) THEN WordRunStart(s, j - 1) ELSE j + 1

EndsWith(s, suffix) ==
  Len(s) >= Len(suffix) /\ SubSeq(s, Len(s) - Len(suffix) + 1, Len(s)) = suffix

\* The string without the optional group (\.git)? at its end
WithoutGitSuffix(s) == IF EndsWith(s, ".git") THEN SubSeq(s, 1, Len(s) - 4) ELSE s

\* match[2] of [/:]([\w-]+)\/([\w-]+?)$ on u, whose second group starts
\* at position i2 and whose first group starts at position i1; <<>> when
\* there is no match
RepoGroups(u, i1, i2) ==
  IF /\ i2 <= Len(u)
     /\ i2 >= 2 /\ SubSeq(u, i2 - 1, i2 - 1) = "/"
     /\ i1 <= i2 - 2
     /\ i1 >= 2 /\ SubSeq(u, i1 - 1, i1 - 1) \in {"/", ":"}
  THEN <<SubSeq(u, i2, Len(u))>>
  ELSE <<>>

RepoSegments(u, i2) == RepoGroups(u, WordRunStart(u, i2 - 2), i2)

\* remoteUrl.match(/[/:]([\w-]+)\/([\w-]+?)(\.git)?$/): <<match[2]>>, or
\* <<>> for null
RepoMatch(url) ==
  RepoSegments(WithoutGitSuffix(url), WordRunStart(WithoutGitSuffix(url), Len(WithoutGitSuffix(url))))

\* gitRoot.split('/').pop() || null, of the settled rev-parse query r
RootName(r) ==
  IF r.kind = "err" THEN r
  ELSE IF SplitChar(Trim(r.val[1]), "/")[Len(SplitChar(Trim(r.val[1]), "/"))] = ""
       THEN ResolvedNull(r.cmds)
  ELSE Resolved(SplitChar(Trim(r.val[1]), "/")[Len(SplitChar(Trim(r.val[1]), "/"))], r.cmds)

\* The remote-url query settled as r and the name is not in its output:
\* the body goes on to the rev-parse query
NeedsGitRoot(r) == r.kind = "ok" /\ RepoMatch(Trim(r.val[1])) = <<>>

\* The body of getGitRepoName once the remote-url query has settled as r
AfterGitRemote(s, r) ==
  IF r.kind = "err" THEN r
  ELSE IF NeedsGitRoot(r) THEN After(r.cmds, RootName(runCommand(s, CmdGitRoot)))
  ELSE Resolved(RepoMatch(Trim(r.val[1]))[1], r.cmds)

\* getGitRepoName: the repository name, or null when a query fails
getGitRepoName(s) == Catch(AfterGitRemote(s, runCommand(s, CmdGitRemote)), <<>>)

\* The default title after initializeDefaultTitle got repoName as r
TitleAfter(r, title) == IF r.kind = "ok" /\ r.val # <<>> THEN r.val[1] ELSE title

\* initializeDefaultTitle, as the constructor leaves it: the remote-url
\* query is spawned and awaited
TitleTaskStarted == [at |-> "remote", kind |-> "ok", cmds |-> <<CmdGitRemote>>]

\* initializeDefaultTitle awaiting the rev-parse query
TitleTaskAtRoot == [at |-> "root", kind |-> "ok", cmds |-> <<CmdGitRemote, CmdGitRoot>>]

\* initializeDefaultTitle returned after getGitRepoName settled as r; its
\* own catch leaves nothing rejected
TitleTaskDone(r) == [at |-> "done", kind |-> Catch(r, <<>>).kind, cmds |-> r.cmds]

(***************************************************************************)
(* Session Directory                                                       *)
(***************************************************************************)

\* { session, window, pane } once the pane query has settled as r
CurrentAfterPane(session, window, r) ==
  IF r.kind = "err" THEN r
  ELSE [r EXCEPT !.val = <<[session |-> session, window |-> window,
                            pane |-> Trim(r.val[1])]>>]

CurrentAfterWindow(s, session, r) ==
  IF r.kind = "err" THEN r
  ELSE After(r.cmds, CurrentAfterPane(session, Trim(r.val[1]), runCommand(s, CmdPaneIndex)))

CurrentAfterSession(s, r) ==
  IF r.kind = "err" THEN r
  ELSE After(r.cmds, CurrentAfterWindow(s, Trim(r.val[1]), runCommand(s, CmdWindowIndex)))

\* A getCurrentTmuxInfo whose failing query leaves its field empty
getCurrentTmuxInfoPartial(s) ==
  Resolved([session |-> Catch(runCommand(s, CmdSessionName), <<"">>).val[1],
            window  |-> Catch(runCommand(s, CmdWindowIndex), <<"">>).val[1],
            pane    |-> Catch(runCommand(s, CmdPaneIndex), <<"">>).val[1]],
           <<CmdSessionName, CmdWindowIndex, CmdPaneIndex>>)

\* getCurrentTmuxInfo: the three queries one after the other; null (no
\* value) when one of them fails
getCurrentTmuxInfo(s) == Catch(CurrentAfterSession(s, runCommand(s, CmdSessionName)), <<>>)

\* output.trim().split('\n').filter(Boolean)
SessionLines(r) ==
  IF r.kind = "err" THEN r
  ELSE [r EXCEPT !.val = <<FilterBoolean(SplitChar(Trim(r.val[1]), "\n"))>>]

\* A listSessions without its try/catch
listSessionsUncaught(s) == SessionLines(runCommand(s, CmdListSessions))

\* listSessions: the session names, [] when the query fails
listSessions(s) == Catch(SessionLines(runCommand(s, CmdListSessions)), << <<>> >>)

\* String.prototype.includes in the place of Array.prototype.includes
ArrayIncludesSubstring(seq, x) == \E i \in 1..Len(seq) : Includes(seq[i], x)

\* Array.prototype.includes
ArrayIncludes(seq, x) == \E i \in 1..Len(seq) : seq[i] = x

\* sessions.includes(session) once listSessions has settled as r
ExistsIn(r, session) == [r EXCEPT !.val = <<ArrayIncludes(r.val[1], session)>>]

\* sessionExists(session)
sessionExists(s, session) == ExistsIn(listSessions(s), session)

(***************************************************************************)
(* Callers: the MCP server (index.ts) and the command line (cli.ts)        *)
(***************************************************************************)

\* Array.prototype.join
RECURSIVE Join(_, _)
Join(seq, sep) ==
  IF seq = <<>> THEN ""
  ELSE IF Len(seq) = 1 THEN seq[1]
  ELSE seq[1] \o sep \o Join(Tail(seq), sep)

\* What a caller ends with: kind "ok" with the text of the one content item
\* in val, kind "err" for a thrown error, kind "exit" with the exit code in
\* val; cmds are the commands issued and sent the options handed to
\* sendNotification.
ToolText(text, cmds, sent) ==
  [kind |-> "ok", val |-> <<text>>, msg |-> "", cmds |-> cmds, sent |-> sent]
ToolThrown(msg, cmds, sent) ==
  [kind |-> "err", val |-> <<>>, msg |-> msg, cmds |-> cmds, sent |-> sent]
Exit(code, msg, cmds, sent) ==
  [kind |-> "exit", val |-> <<code>>, msg |-> msg, cmds |-> cmds, sent |-> sent]

\* The values of the arguments object of a tools/call request are JSON
\* values: strings, numbers, booleans and null; a key that is absent reads
\* as undefined.
JsStr(x) == [t |-> "string", s |-> x, n |-> 0]
JsNum(k) == [t |-> "number", s |-> "", n |-> k]
JsBool(b) == [t |-> "boolean", s |-> "", n |-> IF b THEN 1 ELSE 0]
JsNull == [t |-> "null", s |-> "", n |-> 0]
JsAbsent == [t |-> "undefined", s |-> "", n |-> 0]

\* The truthiness of a JSON value
JsTruthy(v) ==
  CASE v.t = "string"  -> v.s # ""
    [] v.t = "number"  -> v.n # 0
    [] v.t = "boolean" -> v.n = 1
    [] OTHER           -> FALSE

\* String(v)
JsString(v) ==
  CASE v.t = "string"  -> v.s
    [] v.t = "number"  -> NatToString(v.n)
    [] v.t = "boolean" -> IF v.n = 1 THEN "true" ELSE "false"
    [] v.t = "null"    -> "null"
    [] OTHER           -> "undefined"

\* notificationArgs.x ? String(notificationArgs.x) : undefined
JsStringIfTruthy(v) == IF JsTruthy(v) THEN JsString(v) ELSE Undefined

\* The arguments object of a tools/call request
ToolArgs(message, title, sound, session, window, pane, useCurrent) ==
  [message |-> message, title |-> title, sound |-> sound, session |-> session,
   window |-> window, pane |-> pane, useCurrent |-> useCurrent]

\* const options = { message, title, sound }
McpBase(a) ==
  Options(JsStringIfTruthy(a.title), JsString(a.message), JsStringIfTruthy(a.sound),
          Undefined, Undefined, Undefined)

\* The else branch: the caller's own session, window and pane
McpOwnOptions(a) ==
  [McpBase(a) EXCEPT !.session = JsStringIfTruthy(a.session),
                     !.window = JsStringIfTruthy(a.window),
                     !.pane = JsStringIfTruthy(a.pane)]

\* The useCurrent branch once getCurrentTmuxInfo has settled as cur
McpCurrentOptions(a, cur) ==
  IF cur.val = <<>> THEN McpBase(a)
  ELSE [McpBase(a) EXCEPT !.session = cur.val[1].session,
                          !.window = cur.val[1].window,
                          !.pane = cur.val[1].pane]

\* The end of the send_notification case, sendNotification settled as r
McpSent(o, cmds, r) ==
  IF r.kind = "err" THEN ToolThrown(r.msg, cmds \o r.cmds, <<o>>)
  ELSE ToolText("Notification sent: \"" \o o.message \o "\""
                  \o (IF Truthy(o.session) THEN " (tmux: " \o o.session \o ")" ELSE ""),
                cmds \o r.cmds, <<o>>)

McpDispatch(e, s, path, dflt, o, cmds, openSt) ==
  McpSent(o, cmds, sendNotification(e, s, path, dflt, o, openSt))

\* The result for a session that does not exist, listSessions settled as ls
McpNoSession(o, cmds, ls) ==
  ToolText("Error: Session '" \o o.session \o "' does not exist. Available sessions: "
             \o Join(ls.val[1], ", "),
           cmds \o ls.cmds, <<>>)

McpAfterExists(e, s, path, dflt, o, cmds, ex, openSt) ==
  IF ex.val[1] THEN McpDispatch(e, s, path, dflt, o, cmds \o ex.cmds, openSt)
  ELSE McpNoSession(o, cmds \o ex.cmds, listSessions(s))

\* A handler that sends without asking whether the session exists
McpValidateNever(e, s, path, dflt, o, cmds, openSt) ==
  McpDispatch(e, s, path, dflt, o, cmds, openSt)

\* if (options.session) { sessionExists ... }
McpValidate(e, s, path, dflt, o, cmds, openSt) ==
  IF Truthy(o.session)
  THEN McpAfterExists(e, s, path, dflt, o, cmds, sessionExists(s, o.session), openSt)
  ELSE McpDispatch(e, s, path, dflt, o, cmds, openSt)

McpWithCurrent(e, s, path, dflt, a, cur, openSt) ==
  McpValidate(e, s, path, dflt, McpCurrentOptions(a, cur), cur.cmds, openSt)

\* case 'send_notification'
McpSend(e, s, path, dflt, a, openSt) ==
  IF ~JsTruthy(a.message) THEN ToolThrown("Message is required", <<>>, <<>>)
  ELSE IF a.useCurrent THEN McpWithCurrent(e, s, path, dflt, a, getCurrentTmuxInfo(s), openSt)
  ELSE McpValidate(e, s, path, dflt, McpOwnOptions(a), <<>>, openSt)

RECURSIVE Bulleted(_)
Bulleted(sessions) ==
  IF sessions = <<>> THEN <<>>
  ELSE <<"- " \o sessions[1]>> \o Bulleted(Tail(sessions))

\* case 'list_tmux_sessions', listSessions settled as ls
McpListed(ls) ==
  IF ls.kind = "err" THEN ToolThrown(ls.msg, ls.cmds, <<>>)
  ELSE ToolText(IF Len(ls.val[1]) > 0
                THEN "Available tmux sessions:\n" \o Join(Bulleted(ls.val[1]), "\n")
                ELSE "No tmux sessions found",
                ls.cmds, <<>>)

\* case 'get_current_tmux_info', getCurrentTmuxInfo settled as cur
McpCurrent(cur) ==
  IF cur.kind = "err" THEN ToolThrown(cur.msg, cur.cmds, <<>>)
  ELSE IF cur.val # <<>>
  THEN ToolText("Current tmux location:\n- Session: " \o cur.val[1].session
                  \o "\n- Window: " \o cur.val[1].window
                  \o "\n- Pane: " \o cur.val[1].pane,
                cur.cmds, <<>>)
  ELSE ToolText("Not in a tmux session", cur.cmds, <<>>)

\* switch (name) { ... }
ToolSwitch(e, s, path, dflt, name, a, openSt) ==
  CASE name = "send_notification"     -> McpSend(e, s, path, dflt, a, openSt)
    [] name = "list_tmux_sessions"    -> McpListed(listSessions(s))
    [] name = "get_current_tmux_info" -> McpCurrent(getCurrentTmuxInfo(s))
    [] OTHER                          -> ToolThrown("Unknown tool: " \o name, <<>>, <<>>)

\* try { ... } catch (error) { return 'Error: ' + error.message }
ToolCatch(r) ==
  IF r.kind = "err" THEN ToolText("Error: " \o r.msg, r.cmds, r.sent) ELSE r

\* The CallToolRequestSchema handler; args is <<>> when the request has no
\* arguments and <<a>> when it has the arguments object a.
CallTool(e, s, path, dflt, name, args, openSt) ==
  IF args = <<>> THEN ToolThrown("No arguments provided", <<>>, <<>>)
  ELSE ToolCatch(ToolSwitch(e, s, path, dflt, name, args[1], openSt))

\* The option a flag of the CLI argument loop sets, "" for any other word
CliField(a) ==
  CASE a \in {"-m", "--message"} -> "message"
    [] a \in {"-t", "--title"}   -> "title"
    [] a \in {"-s", "--session"} -> "session"
    [] a \in {"-w", "--window"}  -> "window"
    [] a \in {"-p", "--pane"}    -> "pane"
    [] a = "--sound"             -> "sound"
    [] OTHER                     -> ""

\* case '--current-tmux', getCurrentTmuxInfo settled as cur
CliCurrent(acc, cur) ==
  [o |-> IF cur.val = <<>> THEN acc.o
         ELSE [acc.o EXCEPT !.session = cur.val[1].session,
                            !.window = cur.val[1].window,
                            !.pane = cur.val[1].pane],
   cmds |-> acc.cmds \o cur.cmds]

\* The argument loop; i is the 1-based position looked at, acc the options
\* and the commands so far
RECURSIVE CliParse(_, _, _, _)
CliParse(s, args, i, acc) ==
  IF i > Len(args) THEN acc
  ELSE IF CliField(args[i]) # ""
  THEN CliParse(s, args, i + 2, [acc EXCEPT !.o[CliField(args[i])] = At(args, i + 1)])
  ELSE IF args[i] = "--current-tmux"
  THEN CliParse(s, args, i + 1, CliCurrent(acc, getCurrentTmuxInfo(s)))
  ELSE CliParse(s, args, i + 1, acc)

\* The try/catch around sendNotification, settled as r
CliSent(o, cmds, r) ==
  IF r.kind = "err" THEN Exit(1, "Failed to send notification: " \o r.msg, cmds \o r.cmds, <<o>>)
  ELSE Exit(0, "", cmds \o r.cmds, <<o>>)

CliDispatch(e, s, path, dflt, o, cmds, openSt) ==
  CliSent(o, cmds, sendNotification(e, s, path, dflt, o, openSt))

CliNoSession(o, cmds, ls) ==
  Exit(1, "Error: Session '" \o o.session \o "' does not exist", cmds \o ls.cmds, <<>>)

CliAfterExists(e, s, path, dflt, o, cmds, ex, openSt) ==
  IF ex.val[1] THEN CliDispatch(e, s, path, dflt, o, cmds \o ex.cmds, openSt)
  ELSE CliNoSession(o, cmds \o ex.cmds, listSessions(s))

\* main() after the argument loop has ended with acc
CliParsed(e, s, path, dflt, acc, openSt) ==
  IF ~Truthy(acc.o.message)
  THEN Exit(1, "Error: Message is required (-m option)", acc.cmds, <<>>)
  ELSE IF Truthy(acc.o.session)
  THEN CliAfterExists(e, s, path, dflt, acc.o, acc.cmds,
                      sessionExists(s, acc.o.session), openSt)
  ELSE CliDispatch(e, s, path, dflt, acc.o, acc.cmds, openSt)

\* const options = { message: '' }
CliDefaults ==
  [o |-> Options(Undefined, "", Undefined, Undefined, Undefined, Undefined),
   cmds |-> <<>>]

\* main() of the command line, run with arguments args
CliMain(e, s, path, dflt, args, openSt) ==
  IF ArrayIncludes(args, "--help") \/ ArrayIncludes(args, "-h") THEN Exit(0, "", <<>>, <<>>)
  ELSE IF ArrayIncludes(args, "--list-sessions")
  THEN Exit(0, "", listSessions(s).cmds, <<>>)
  ELSE CliParsed(e, s, path, dflt, CliParse(s, args, 1, CliDefaults), openSt)

(***************************************************************************)
(* Native notification application (MacOSNotifyMCP, main.swift)            *)
(***************************************************************************)

\* The value of an optional that holds nothing
Nil == Undefined

\* The arguments the launched application sees: its executable, then what
\* follows --args on the open command line.
RECURSIVE AfterArgsFlag(_)
AfterArgsFlag(args) ==
  IF args = <<>> THEN <<>>
  ELSE IF Head(args) = "--args" THEN Tail(args)
  ELSE AfterArgsFlag(Tail(args))

CommandLineArguments(openArgs) == <<"MacOSNotifyMCP">> \o AfterArgsFlag(openArgs)

ParsedDefaults ==
  [title |-> "Claude Code", message |-> "", sound |-> "default",
   session |-> Nil, window |-> Nil, pane |-> Nil, terminal |-> Nil, help |-> FALSE]

\* The flag table of the argument loop: the variable a flag sets
FlagField(a) ==
  CASE a \in {"-t", "--title"}   -> "title"
    [] a \in {"-m", "--message"} -> "message"
    [] a \in {"-s", "--session"} -> "session"
    [] a \in {"-w", "--window"}  -> "window"
    [] a \in {"-p", "--pane"}    -> "pane"
    [] a = "--sound"             -> "sound"
    [] a = "--terminal"          -> "terminal"
    [] OTHER                     -> ""

\* The while loop over CommandLine.arguments; i is the 1-based position of
\* the argument looked at, acc the variables set so far.
RECURSIVE ParseArguments(_, _, _)
ParseArguments(args, i, acc) ==
  IF i > Len(args) THEN acc
  ELSE IF args[i] \in {"-h", "--help"} THEN [acc EXCEPT !.help = TRUE]
  ELSE IF FlagField(args[i]) # "" /\ i + 1 <= Len(args)
       THEN ParseArguments(args, i + 2, [acc EXCEPT ![FlagField(args[i])] = args[i + 1]])
  ELSE ParseArguments(args, i + 1, acc)

\* The userInfo dictionary stored in the notification content
UserInfo(p) ==
  [session  |-> p.session,
   window   |-> IF p.session # Nil THEN p.window ELSE Nil,
   pane     |-> IF p.session # Nil THEN p.pane ELSE Nil,
   terminal |-> p.terminal]

\* let terminalMap: identity -> application name; Nil when not in the table
TerminalMap(t) ==
  CASE t = "VSCode"    -> "Visual Studio Code"
    [] t = "Cursor"    -> "Cursor"
    [] t = "iTerm2"    -> "iTerm2"
    [] t = "Terminal"  -> "Terminal"
    [] t = "alacritty" -> "Alacritty"
    [] OTHER           -> Nil

\* let terminals: the fallback order
FallbackTerminals ==
  <<"Alacritty", "iTerm2", "WezTerm", "Terminal", "Visual Studio Code", "Cursor">>

\* isAppRunning: pgrep -f appName exits 0
isAppRunning(s, appName) == appName \in s.running

CmdActivate(appName) ==
  <<"/usr/bin/osascript", "-e", "tell application \"" \o appName \o "\" to activate">>

\* An activation that goes through the fallback order whatever identity is
\* embedded
activateTerminalFallbackOnly(s, preferred) ==
  IF \E i \in 1..Len(FallbackTerminals) : isAppRunning(s, FallbackTerminals[i])
  THEN CmdActivate(FallbackTerminals[
         CHOOSE i \in 1..Len(FallbackTerminals) :
           /\ isAppRunning(s, FallbackTerminals[i])
           /\ \A j \in 1..(i - 1) : ~isAppRunning(s, FallbackTerminals[j])])
  ELSE CmdActivate("Terminal")

\* activateTerminal(preferredTerminal): the one osascript command it runs
activateTerminal(s, preferred) ==
  IF preferred # Nil /\ TerminalMap(preferred) # Nil /\ isAppRunning(s, TerminalMap(preferred))
  THEN CmdActivate(TerminalMap(preferred))
  ELSE IF \E i \in 1..Len(FallbackTerminals) : isAppRunning(s, FallbackTerminals[i])
       THEN CmdActivate(FallbackTerminals[
              CHOOSE i \in 1..Len(FallbackTerminals) :
                /\ isAppRunning(s, FallbackTerminals[i])
                /\ \A j \in 1..(i - 1) : ~isAppRunning(s, FallbackTerminals[j])])
  ELSE CmdActivate("Terminal")

\* let paths: the well-known install locations
TmuxInstallPaths == <<"/opt/homebrew/bin/tmux", "/usr/local/bin/tmux", "/usr/bin/tmux">>

\* findTmuxPath: first existing install location, else the trimmed output of
\* a successful `which tmux`, else the empty string
findTmuxPath(s) ==
  IF \E i \in 1..Len(TmuxInstallPaths) : TmuxInstallPaths[i] \in s.files
  THEN TmuxInstallPaths[CHOOSE i \in 1..Len(TmuxInstallPaths) :
                          /\ TmuxInstallPaths[i] \in s.files
                          /\ \A j \in 1..(i - 1) : TmuxInstallPaths[j] \notin s.files]
  ELSE IF s.which.st = "ok" THEN Trim(s.which.out)
  ELSE ""

\* runCommand of the application: true when the process could be run and
\* ended with status 0; nothing is thrown
appRunCommand(s, cmd) == Outcome(s, cmd).st = "ok"

CommandResults(s, cmds) == [k \in 1..Len(cmds) |-> appRunCommand(s, cmds[k])]

\* A target that names the session only
TmuxTargetSessionOnly(session, window, pane) == session

\* The target string built by focusToTmux
TmuxTarget(session, window, pane) ==
  session
  \o (IF window # Nil
      THEN ":" \o window \o (IF pane # Nil THEN "." \o pane ELSE "")
      ELSE "")

\* A delayed block that issues the switch command whether or not an
\* executable was located
SwitchCommandsUnguarded(s, u) ==
  <<<<findTmuxPath(s), "switch-client", "-t", TmuxTarget(u.session, u.window, u.pane)>>>>

\* The commands of the delayed block of focusToTmux
SwitchCommands(s, u) ==
  IF findTmuxPath(s) = "" THEN <<>>
  ELSE <<<<findTmuxPath(s), "switch-client", "-t", TmuxTarget(u.session, u.window, u.pane)>>>>

(***************************************************************************)
(* Bounded inputs                                                          *)
(***************************************************************************)

\* At most this many notification processes are launched in one behaviour.
MaxNotifs == 1

Ok(out) == [st |-> "ok", out |-> out]
FailExit == [st |-> "exit", out |-> ""]
FailSpawn == [st |-> "spawn", out |-> ""]

NoEnv ==
  [CURSOR_TRACE_ID |-> Undefined, VSCODE_IPC_HOOK_CLI |-> Undefined,
   VSCODE_REMOTE |-> Undefined, VSCODE_PID |-> Undefined,
   ALACRITTY_WINDOW_ID |-> Undefined, ALACRITTY_SOCKET |-> Undefined,
   TERM_PROGRAM |-> Undefined, TMUX |-> Undefined, TMUX_PANE |-> Undefined]

\* The values each environment marker takes
CursorTraceIdValues == {Undefined, "", "8a1f"}
VscodeIpcHookValues == {Undefined, "/tmp/vscode-ipc-1.sock", "/Lib/Cursor/ipc.sock"}
VscodeRemoteValues == {Undefined, "1"}
VscodePidValues == {Undefined, "42"}
AlacrittyWindowIdValues == {Undefined, "7"}
AlacrittySocketValues == {Undefined, "/tmp/Alacritty.sock"}
TermProgramValues == {Undefined, "iTerm.app", "Apple_Terminal", "alacritty", "tmux"}
TmuxValues == {Undefined, "/tmp/tmux-501/default,1,0"}
TmuxPaneValues == {Undefined, "%0"}

\* process.env as far as the resolver reads it
Env(cursor, ipc, remote, vpid, awid, asock, tp, tmux, pane) ==
  [CURSOR_TRACE_ID |-> cursor, VSCODE_IPC_HOOK_CLI |-> ipc,
   VSCODE_REMOTE |-> remote, VSCODE_PID |-> vpid,
   ALACRITTY_WINDOW_ID |-> awid, ALACRITTY_SOCKET |-> asock,
   TERM_PROGRAM |-> tp, TMUX |-> tmux, TMUX_PANE |-> pane]

\* The environment of the application process launchd starts for `open`
AppEnv == [NoEnv EXCEPT !.TERM_PROGRAM = "Apple_Terminal"]

\* A world in which every command fails and nothing is installed or running
DeadWorld ==
  [pid |-> 100,
   sessionName |-> FailExit, listClients |-> FailExit,
   windowIndex |-> FailExit, paneIndex |-> FailExit, listSessions |-> FailExit,
   lsof |-> [t \in {} |-> FailExit], psComm |-> [p \in {} |-> FailExit],
   clientTerm |-> FailExit, showEnv |-> FailExit,
   psTree |-> [p \in {} |-> FailExit],
   gitRemote |-> FailExit, gitRoot |-> FailExit,
   osascript |-> FailExit, switchClient |-> FailExit,
   running |-> {}, files |-> {}, which |-> FailExit, appEnv |-> AppEnv]

LsofHeader == "COMMAND PID USER\n"

\* Inside tmux, attached from a VS Code terminal: two clients, the second
\* the more recently active, its TTY held by a shell and a "Code Helper".
CodeWorld ==
  [DeadWorld EXCEPT
     !.sessionName = Ok("dev\n"),
     !.listClients = Ok("/dev/ttys001|dev|1700000100\n/dev/ttys002|dev|1700000200\n"),
     !.lsof = [t \in {"/dev/ttys001", "/dev/ttys002"} |->
                 IF t = "/dev/ttys001"
                 THEN Ok(LsofHeader \o "login 11 me\n")
                 ELSE Ok(LsofHeader \o "zsh 21 me\n"
                                    \o "Code\\x20H 22 me\n")],
     !.psComm = [p \in {"11", "21", "22"} |->
                   CASE p = "11" -> Ok("login\n")
                     [] p = "21" -> Ok("-zsh\n")
                     [] p = "22" -> Ok("Code Helper\n")],
     !.clientTerm = Ok("xterm-256color\n"),
     !.showEnv = Ok("TERM_PROGRAM=iTerm.app\n"),
     !.psTree = [p \in {"100", "50"} |->
                   IF p = "100" THEN Ok("   50 node\n") ELSE Ok("    1 tmux\n")],
     !.running = {"Visual Studio Code", "Terminal"},
     !.osascript = Ok(""), !.switchClient = Ok(""),
     !.which = Ok("/opt/local/bin/tmux\n")]

\* A plain terminal window: caller -> shell -> login -> Terminal -> launchd
TerminalWorld ==
  [DeadWorld EXCEPT
     !.psTree = [p \in {"100", "50", "20", "5"} |->
                   CASE p = "100" -> Ok("   50 node\n")
                     [] p = "50"  -> Ok("   20 -zsh\n")
                     [] p = "20"  -> Ok("    5 login\n")
                     [] p = "5"   ->
                          Ok("    1 /System/Applications/Utilities/Terminal.app/Contents/MacOS/Terminal\n")],
     !.running = {"iTerm2", "Terminal"},
     !.files = {"/usr/local/bin/tmux", "/usr/bin/tmux"}]

\* Outcomes of the multiplexer queries and of the TTY-process queries
SessionNameOutcomes == {FailExit, Ok(""), Ok("dev\n")}

ListClientsOutcomes ==
  {FailSpawn, Ok("\n"),
   Ok("/dev/ttys001|dev|1700000100\n"),
   Ok("/dev/ttys001|dev|1700000100\n/dev/ttys002|dev|1700000200\n"),
   Ok("/dev/ttys002|dev|1700000200\n/dev/ttys001|dev|1700000200\n")}

Lsof1Outcomes ==
  {Ok(LsofHeader \o "login 11 me\n")}

Lsof2Outcomes ==
  {FailExit, Ok(LsofHeader),
   Ok(LsofHeader \o "zsh 21 me\n"
                 \o "Code\\x20H 22 me\n"),
   Ok(LsofHeader \o "Code\\x20H 22 me\n"
                 \o "zsh 21 me\n")}

PsComm11Outcomes == {Ok("login\n"), Ok("/Applications/iTerm.app/Contents/MacOS/iTerm2\n")}
PsComm21Outcomes == {FailExit, Ok("-zsh\n"), Ok("alacritty\n")}
PsComm22Outcomes == {FailExit, Ok("Code Helper\n"), Ok("tmux\n")}

ClientTermOutcomes == {FailExit, Ok("xterm-256color\n"), Ok("Apple_Terminal\n")}
ShowEnvOutcomes == {FailExit, Ok("TERM_PROGRAM=iTerm.app\n"), Ok("-TERM_PROGRAM\n")}

\* The world in which the multiplexer strategy sees the given outcomes
TmuxWorld(sn, lc, l1, l2, c11, c21, c22, ct, se) ==
  [CodeWorld EXCEPT
     !.sessionName = sn, !.listClients = lc,
     !.lsof = [t \in {"/dev/ttys001", "/dev/ttys002"} |->
                 IF t = "/dev/ttys001" THEN l1 ELSE l2],
     !.psComm = [p \in {"11", "21", "22"} |->
                   CASE p = "11" -> c11 [] p = "21" -> c21 [] p = "22" -> c22],
     !.clientTerm = ct, !.showEnv = se]

\* Environments with no direct marker, inside or outside the multiplexer
TmuxEnvs ==
  {[NoEnv EXCEPT !.TMUX = "/tmp/tmux-501/default,1,0"],
   [NoEnv EXCEPT !.TMUX = "/tmp/tmux-501/default,1,0", !.TMUX_PANE = "%0"],
   [NoEnv EXCEPT !.TMUX_PANE = "%0"]}

\* Outcomes of `ps -o ppid=,comm=` for the caller (100) and its ancestors
PsTree100Outcomes == {FailSpawn, Ok("   50 node\n"), Ok("    1 node\n")}
PsTree50Outcomes ==
  {FailExit, Ok("   20 -zsh\n"), Ok("  100 -zsh\n"),
   Ok("   20 /Applications/Cursor.app/Contents/MacOS/Cursor\n")}
PsTree20Outcomes ==
  {Ok("    5 alacritty\n"), Ok("    1 alacritty\n"), Ok("    5 login\n"),
   Ok("    5 /Applications/iTerm.app/Contents/MacOS/iTerm2\n"),
   Ok("    1 /Applications/iTerm.app/Contents/MacOS/iTerm2\n"), Ok("\n")}
PsTree5Outcomes ==
  {Ok("    1 login\n"), Ok("    0 kernel_task\n"),
   Ok("    1 /System/Applications/Utilities/Terminal.app/Contents/MacOS/Terminal\n"),
   Ok("    2 /Applications/Visual Studio Code.app/Contents/MacOS/Electron\n")}

\* The world in which the caller and its ancestors answer ps as given
TreeWorld(a, b, c, d) ==
  [DeadWorld EXCEPT
     !.psTree = [p \in {"100", "50", "20", "5"} |->
                   CASE p = "100" -> a [] p = "50" -> b [] p = "20" -> c [] p = "5" -> d]]

\* The worlds every marker combination is tried in
MarkerWorlds == {DeadWorld, CodeWorld}

\* The requests sendNotification is called with
NoOptions == Options(Undefined, Undefined, Undefined, Undefined, Undefined, Undefined)

Requests ==
  {Options(Undefined, "hi", Undefined, Undefined, Undefined, Undefined),
   Options(Undefined, "hi", Undefined, "dev", Undefined, Undefined),
   Options(Undefined, "hi", Undefined, "dev", "1", Undefined),
   Options(Undefined, "hi", Undefined, "dev", Undefined, "0"),
   Options(Undefined, "hi", "Ping", "dev", "1", "0"),
   Options(Undefined, "hi", Undefined, "dev", "", "0"),
   Options("-s", "hi", Undefined, Undefined, "1", ""),
   Options(Undefined, "hi", Undefined, Undefined, "1", "0"),
   Options("", "hi", "", "", "2", Undefined),
   Options("Build", "", Undefined, "dev", Undefined, Undefined)}

\* How a launch of /usr/bin/open can end
OpenOutcomes == {"ok", "exit", "spawn"}

\* The (environment, world) pairs the whole send-and-click life cycle runs in
Scenarios ==
  {<<[NoEnv EXCEPT !.TERM_PROGRAM = "iTerm.app"],
     [DeadWorld EXCEPT !.running = {"iTerm2"}, !.files = {"/opt/homebrew/bin/tmux"}]>>,
   <<[NoEnv EXCEPT !.TMUX = "/tmp/tmux-501/default,1,0", !.TMUX_PANE = "%0"], CodeWorld>>,
   <<NoEnv, TerminalWorld>>,
   <<[NoEnv EXCEPT !.ALACRITTY_SOCKET = "/tmp/Alacritty.sock"], DeadWorld>>,
   <<NoEnv, [DeadWorld EXCEPT !.running = {"Cursor", "Terminal"}]>>,
   <<[NoEnv EXCEPT !.CURSOR_TRACE_ID = "8a1f"],
     [DeadWorld EXCEPT !.running = {"Visual Studio Code", "WezTerm"},
                       !.files = {"/usr/bin/tmux"}]>>}

(***************************************************************************)
(* State machine                                                           *)
(*   env, sys   the caller's environment and the world of command outcomes *)
(*   appPath    the notifier's path to the native application              *)
(*   defaultTitle  the notifier's default title                            *)
(*   titleTask  the un-awaited initializeDefaultTitle the constructor      *)
(*              started: where it stands and what it spawned               *)
(*   call       the last completed call of a notifier operation            *)
(*   notifs     the native application processes launched so far           *)
(*   pending    the sendNotification calls begun, awaiting or settled      *)
(*   proc       the child process and the promise of one runCommand call   *)
(***************************************************************************)

NoCall ==
  [op |-> "none", opts |-> NoOptions, kind |-> "ok", val |-> <<>>, msg |-> "",
   cmds |-> <<>>]

NoUserInfo == [session |-> Nil, window |-> Nil, pane |-> Nil, terminal |-> Nil]

\* The process `open` starts: it has its arguments and nothing else yet.
\* request and resolved remember what sendNotification was given and what
\* it resolved when it launched the process.
Launched(args, o, terminal) ==
  [st |-> "launched", argv |-> CommandLineArguments(args),
   title |-> "", body |-> "", sound |-> "", userInfo |-> NoUserInfo,
   read |-> NoUserInfo, tmuxPath |-> "", cmds |-> <<>>,
   timers |-> <<>>, fired |-> <<>>, results |-> <<>>,
   out |-> <<>>, code |-> Nil,
   request |-> o, resolved |-> terminal]

\* The notifier after construction, set in environment e and world w
InitWith(e, w) ==
  /\ env = e
  /\ sys = w
  /\ appPath = "/opt/MacOSNotifyMCP.app"
  /\ defaultTitle = LiteralDefaultTitle
  /\ titleTask = TitleTaskStarted
  /\ call = NoCall
  /\ notifs = <<>>
  /\ pending = <<>>
  /\ proc = NoProc

Init == \E p \in Scenarios : InitWith(p[1], p[2])

\* await notifier.getTerminalEmulator()
GetTerminal ==
  /\ call' = getTerminalEmulator(env, sys) @@
             [op |-> "getTerminalEmulator", opts |-> NoOptions]
  /\ UNCHANGED <<env, sys, appPath, defaultTitle, titleTask, notifs, pending, proc>>

\* The state after sendNotification(o) has settled as r; a successful
\* launch has started a process
Settled(r, o) ==
  /\ call' = r @@ [op |-> "sendNotification", opts |-> o]
  /\ notifs' = IF r.kind = "ok"
               THEN Append(notifs, Launched(r.cmds[Len(r.cmds)], o, r.val[1]))
               ELSE notifs
  /\ UNCHANGED <<env, sys, appPath, defaultTitle, titleTask, pending, proc>>

\* await notifier.sendNotification(o)
SendStep(o, openSt) ==
  Settled(sendNotification(env, sys, appPath, defaultTitle, o, openSt), o)

Send ==
  /\ Len(notifs) < MaxNotifs
  /\ \E o \in Requests, openSt \in OpenOutcomes : SendStep(o, openSt)

\* The first send of a behaviour, with a plain request
SendFirst ==
  /\ notifs = <<>>
  /\ \E openSt \in OpenOutcomes :
       SendStep(Options(Undefined, "hi", Undefined, "dev", "1", Undefined), openSt)

\* The identity the application would resolve from its own environment
ClickTerminalReResolved(u, appEnv, s) == detectTerminalEmulator(appEnv, s).val[1]

\* The terminal identity the click callback works with
ClickTerminal(u, appEnv, s) == u.terminal

\* The process ended by exit(code) after printing line
Exited(i, line, code) ==
  notifs' = [notifs EXCEPT ![i].st = "exited", ![i].out = Append(@, line),
                           ![i].code = code]

\* The application with its arguments parsed as p
Started(i, p) ==
  IF p.help THEN Exited(i, "Usage:", "0")
  ELSE IF p.message = "" THEN Exited(i, "Error: Message is required (-m option)", "1")
  ELSE \E outcome \in {"granted", "denied", "addError"} :
         CASE outcome = "granted" ->
                notifs' = [notifs EXCEPT ![i].st = "displayed",
                                         ![i].title = p.title,
                                         ![i].body = p.message,
                                         ![i].sound = p.sound,
                                         ![i].userInfo = UserInfo(p),
                                         ![i].out = Append(@, "Notification sent")]
           [] outcome = "denied" -> Exited(i, "Notification permission denied", "1")
           [] outcome = "addError" -> Exited(i, "Notification error:", "1")

\* The main program of the application: parse the arguments, ask for
\* permission, post the notification and stay alive for the click.
AppMain(i) ==
  /\ notifs[i].st = "launched"
  /\ Started(i, ParseArguments(notifs[i].argv, 2, ParsedDefaults))
  /\ UNCHANGED <<env, sys, appPath, defaultTitle, titleTask, call, pending, proc>>

\* Timers queued with the exit block ahead of the switch block
ScheduledTimersExitFirst(u) ==
  IF u.session # Nil THEN <<"exit", "switch">> ELSE <<"exit">>

\* The blocks the callback hands to DispatchQueue.main.asyncAfter, in the
\* order of their deadlines: focusToTmux takes now + 0.5 s for the switch
\* block before the callback takes now + 0.5 s for the exit block, and the
\* main queue runs the block with the earlier deadline first.
ScheduledTimers(u) ==
  IF u.session # Nil THEN <<"switch", "exit">> ELSE <<"exit">>

\* The callback with userInfo u and the terminal t it works with
Clicked(i, u, t) ==
  notifs' = [notifs EXCEPT
               ![i].st = "activated",
               ![i].read = [u EXCEPT !.terminal = t],
               ![i].timers = ScheduledTimers(u),
               ![i].cmds = IF u.session # Nil \/ t # Nil
                           THEN <<activateTerminal(sys, t)>> ELSE <<>>,
               ![i].results = IF u.session # Nil \/ t # Nil
                              THEN <<appRunCommand(sys, activateTerminal(sys, t))>>
                              ELSE <<>>]

\* A callback that works with the payload of the oldest notification
ClickOldestPayload(i) ==
  /\ notifs[i].st = "displayed"
  /\ Clicked(i, notifs[1].userInfo, ClickTerminal(notifs[1].userInfo, sys.appEnv, sys))
  /\ UNCHANGED <<env, sys, appPath, defaultTitle, titleTask, call, pending, proc>>

\* userNotificationCenter(didReceive): activate the terminal now, schedule
\* the switch (when a session is embedded) and the exit.
Click(i) ==
  /\ notifs[i].st = "displayed"
  /\ Clicked(i, notifs[i].userInfo, ClickTerminal(notifs[i].userInfo, sys.appEnv, sys))
  /\ UNCHANGED <<env, sys, appPath, defaultTitle, titleTask, call, pending, proc>>

\* The block focusToTmux scheduled 0.5 s after the activation
SwitchTimer(i) ==
  /\ notifs[i].st = "activated"
  /\ notifs[i].timers # <<>> /\ Head(notifs[i].timers) = "switch"
  /\ notifs' = [notifs EXCEPT
                  ![i].st = "switched",
                  ![i].timers = Tail(@),
                  ![i].fired = Append(@, "switch"),
                  ![i].tmuxPath = findTmuxPath(sys),
                  ![i].cmds = @ \o SwitchCommands(sys, notifs[i].read),
                  ![i].results = @ \o CommandResults(sys, SwitchCommands(sys, notifs[i].read))]
  /\ UNCHANGED <<env, sys, appPath, defaultTitle, titleTask, call, pending, proc>>

\* The block scheduled 0.5 s after the callback: terminate the process,
\* and with it whatever block is still queued.
ExitTimer(i) ==
  /\ notifs[i].st \in {"activated", "switched"}
  /\ notifs[i].timers # <<>> /\ Head(notifs[i].timers) = "exit"
  /\ notifs' = [notifs EXCEPT ![i].st = "exited",
                              ![i].code = "0",
                              ![i].timers = <<>>,
                              ![i].fired = Append(@, "exit")]
  /\ UNCHANGED <<env, sys, appPath, defaultTitle, titleTask, call, pending, proc>>

Next ==
  \/ GetTerminal
  \/ Send
  \/ \E i \in 1..Len(notifs) : AppMain(i)
  \/ \E i \in 1..Len(notifs) : Click(i)
  \/ \E i \in 1..Len(notifs) : SwitchTimer(i)
  \/ \E i \in 1..Len(notifs) : ExitTimer(i)

Spec == Init /\ [][Next]_vars

\* The requests whose notifications are clicked under every outcome of the
\* handler's commands
ClickRequests ==
  {Options(Undefined, "hi", Undefined, Undefined, Undefined, Undefined),
   Options(Undefined, "hi", Undefined, "dev", "1", "0")}

\* How a command of the click handler can end
HandlerOutcomes == {Ok(""), FailExit, FailSpawn}

\* The worlds of the click handler: the multiplexer installed or not, found
\* by `which` or not, the activation and the switch ending as given
ClickWorld(files, which, osa, sw) ==
  [DeadWorld EXCEPT !.running = {"iTerm2"}, !.files = files, !.which = which,
                    !.osascript = osa, !.switchClient = sw]

InitClick ==
  \E files \in {{}, {"/usr/bin/tmux"}}, which \in {FailExit, Ok("/opt/local/bin/tmux\n")},
     osa \in HandlerOutcomes, sw \in HandlerOutcomes :
    InitWith([NoEnv EXCEPT !.TERM_PROGRAM = "iTerm.app"], ClickWorld(files, which, osa, sw))

\* A send whose launch succeeds
SendClickable ==
  /\ Len(notifs) < MaxNotifs
  /\ \E o \in ClickRequests : SendStep(o, "ok")

NextClick ==
  \/ SendClickable
  \/ \E i \in 1..Len(notifs) : AppMain(i)
  \/ \E i \in 1..Len(notifs) : Click(i)
  \/ \E i \in 1..Len(notifs) : SwitchTimer(i)
  \/ \E i \in 1..Len(notifs) : ExitTimer(i)

\* The main queue of a running application runs a block that is due: the
\* run loop started by app.run() never stops serving it.  Nothing makes a
\* user click.
FairClick ==
  \A i \in 1..MaxNotifs :
    /\ WF_vars(i <= Len(notifs) /\ SwitchTimer(i))
    /\ WF_vars(i <= Len(notifs) /\ ExitTimer(i))

SpecClick == InitClick /\ [][NextClick]_vars /\ FairClick

\* Resolution and a first send on every bounded (environment, world) pair
InitResolve ==
  \/ \E cursor \in CursorTraceIdValues, ipc \in VscodeIpcHookValues,
        remote \in VscodeRemoteValues, vpid \in VscodePidValues,
        awid \in AlacrittyWindowIdValues, asock \in AlacrittySocketValues,
        tp \in TermProgramValues, tmux \in TmuxValues, pane \in TmuxPaneValues,
        w \in MarkerWorlds :
       InitWith(Env(cursor, ipc, remote, vpid, awid, asock, tp, tmux, pane), w)
  \/ \E e \in TmuxEnvs, sn \in SessionNameOutcomes, lc \in ListClientsOutcomes,
        l1 \in Lsof1Outcomes, l2 \in Lsof2Outcomes, c11 \in PsComm11Outcomes,
        c21 \in PsComm21Outcomes, c22 \in PsComm22Outcomes,
        ct \in ClientTermOutcomes, se \in ShowEnvOutcomes :
       InitWith(e, TmuxWorld(sn, lc, l1, l2, c11, c21, c22, ct, se))
  \/ \E a \in PsTree100Outcomes, b \in PsTree50Outcomes,
        c \in PsTree20Outcomes, d \in PsTree5Outcomes :
       InitWith(NoEnv, TreeWorld(a, b, c, d))

NextResolve == GetTerminal \/ SendFirst

SpecResolve == InitResolve /\ [][NextResolve]_vars

\* At most this many sendNotification calls are begun in one behaviour of
\* the interleaved specification.
MaxSends == 2

\* The requests of the interleaved calls, in the order the calls are made
ConcurrentRequests ==
  <<Options("Build", "done", Undefined, "dev", "1", Undefined),
    Options(Undefined, "hi", "Ping", "ops", "2", "0")>>

\* The request of the n-th call
RequestOf(n) == ConcurrentRequests[((n - 1) % Len(ConcurrentRequests)) + 1]

\* The (environment, world) pairs the caller is hosted in, one after the
\* other
Hosts ==
  <<<<[NoEnv EXCEPT !.TERM_PROGRAM = "iTerm.app"],
      [DeadWorld EXCEPT !.running = {"iTerm2"}, !.files = {"/opt/homebrew/bin/tmux"}]>>,
    <<[NoEnv EXCEPT !.TMUX = "/tmp/tmux-501/default,1,0", !.TMUX_PANE = "%0"], CodeWorld>>>>

\* A sendNotification(o) call that has run up to its first await: its
\* environment tests are done (on envAt), its commands are not.
Begun(o, e) ==
  [request |-> o, envAt |-> e, sysAt |-> <<>>, st |-> "resolving",
   terminal |-> Undefined, cmds |-> <<>>, proc |-> 0,
   dflt |-> defaultTitle, taskAt |-> titleTask.at]

\* The call rejected by the appPath test, before any await
Unconfigured(o, e) ==
  [Begun(o, e) EXCEPT !.st = "rejected"]

\* The terminals the calls settled so far resolved
EarlierTerminals ==
  [i \in 1..Len(SelectSeq(pending, LAMBDA q : q.terminal # Undefined)) |->
     SelectSeq(pending, LAMBDA q : q.terminal # Undefined)[i].terminal]

\* A resolver that hands out what an earlier call resolved
ResolveForSendRemembered(e, s, earlier) ==
  IF earlier # <<>> THEN Resolved(earlier[1], <<>>) ELSE detectTerminalEmulator(e, s)

\* const terminal = await this.detectTerminalEmulator()
ResolveForSend(e, s, earlier) == detectTerminalEmulator(e, s)

\* The default title read when the launch is made
DefaultTitleAtLaunch(q, now) == now

\* title = this.defaultTitle: the default is read when the call is
\* entered, q being the entered call and now the field as it is at the launch
DefaultTitleRead(q, now) == q.dflt

\* The call sendNotification(o), entered: the appPath test and the
\* synchronous part of detectTerminalEmulator
BeginSend ==
  /\ Len(pending) < MaxSends
  /\ pending' = Append(pending,
                      IF appPath = "" THEN Unconfigured(RequestOf(Len(pending) + 1), env)
                      ELSE Begun(RequestOf(Len(pending) + 1), env))
  /\ UNCHANGED <<env, sys, appPath, defaultTitle, titleTask, call, notifs, proc>>

\* Call k settles as r: its commands have run in the world as it is now
FinishedAs(k, r) ==
  /\ pending' = [pending EXCEPT
                   ![k].st = IF r.kind = "ok" THEN "fulfilled" ELSE "rejected",
                   ![k].sysAt = <<sys>>,
                   ![k].terminal = r.val[1],
                   ![k].cmds = r.cmds,
                   ![k].proc = IF r.kind = "ok" THEN Len(notifs) + 1 ELSE 0]
  /\ call' = r @@ [op |-> "sendNotification", opts |-> pending[k].request]
  /\ notifs' = IF r.kind = "ok"
               THEN Append(notifs, Launched(r.cmds[Len(r.cmds)], pending[k].request, r.val[1]))
               ELSE notifs
  /\ UNCHANGED <<env, sys, appPath, defaultTitle, titleTask, proc>>

\* The rest of call k: the resolver's commands, then the launch
FinishSend(k) ==
  /\ pending[k].st = "resolving"
  /\ \E openSt \in OpenOutcomes :
       FinishedAs(k, LaunchWith(appPath, DefaultTitleRead(pending[k], defaultTitle),
                                pending[k].request, openSt,
                                ResolveForSend(pending[k].envAt, sys, EarlierTerminals)))

\* The caller's process is now hosted elsewhere: its environment and the
\* outcomes of the commands change
Rehost ==
  /\ \E h \in 1..(Len(Hosts) - 1) :
       /\ <<env, sys>> = Hosts[h]
       /\ env' = Hosts[h + 1][1]
       /\ sys' = Hosts[h + 1][2]
  /\ UNCHANGED <<appPath, defaultTitle, titleTask, call, notifs, pending, proc>>

InitConcurrent == InitWith(Hosts[1][1], Hosts[1][2])

NextConcurrent ==
  \/ BeginSend
  \/ \E k \in 1..Len(pending) : FinishSend(k)
  \/ Rehost
  \/ \E i \in 1..Len(notifs) : AppMain(i)
  \/ \E i \in 1..Len(notifs) : Click(i)
  \/ \E i \in 1..Len(notifs) : SwitchTimer(i)
  \/ \E i \in 1..Len(notifs) : ExitTimer(i)

SpecConcurrent == InitConcurrent /\ [][NextConcurrent]_vars

\* The outcomes of the version-control queries
GitRemoteOutcomes ==
  {FailExit, FailSpawn, Ok("\n"),
   Ok("https://github.com/acme/web-app.git\n"),
   Ok("git@github.com:acme/web_app\n"),
   Ok("https://example.com/acme/web.app.git\n"),
   Ok("git@host:solo.git\n")}

GitRootOutcomes == {FailExit, Ok("/Users/me/src/notes\n"), Ok("/\n")}

\* The world in which the version-control queries answer as given
TitleWorld(remote, root) ==
  [Hosts[1][2] EXCEPT !.gitRemote = remote, !.gitRoot = root]

\* initializeDefaultTitle returns, getGitRepoName having settled as r
TitleSettled(r) ==
  /\ titleTask' = TitleTaskDone(r)
  /\ defaultTitle' = TitleAfter(Catch(r, <<>>), defaultTitle)

\* The remote-url query of the constructor's task has settled
TitleRemoteSettled ==
  /\ titleTask.at = "remote"
  /\ IF NeedsGitRoot(runCommand(sys, CmdGitRemote))
     THEN titleTask' = TitleTaskAtRoot /\ UNCHANGED defaultTitle
     ELSE TitleSettled(AfterGitRemote(sys, runCommand(sys, CmdGitRemote)))
  /\ UNCHANGED <<env, sys, appPath, call, notifs, pending, proc>>

\* The rev-parse query of the constructor's task has settled
TitleRootSettled ==
  /\ titleTask.at = "root"
  /\ TitleSettled(After(<<CmdGitRemote>>, RootName(runCommand(sys, CmdGitRoot))))
  /\ UNCHANGED <<env, sys, appPath, call, notifs, pending, proc>>

InitTitle ==
  \E remote \in GitRemoteOutcomes, root \in GitRootOutcomes :
    InitWith(Hosts[1][1], TitleWorld(remote, root))

NextTitle ==
  \/ TitleRemoteSettled
  \/ TitleRootSettled
  \/ BeginSend
  \/ \E k \in 1..Len(pending) : FinishSend(k)

SpecTitle == InitTitle /\ [][NextTitle]_vars

\* The outcomes of the session-directory queries
ListSessionsOutcomes ==
  {FailExit, FailSpawn, Ok(""), Ok("dev\nops\n"), Ok("ops\ndev\n"), Ok("ops\n")}
CurrentSessionOutcomes == {FailExit, Ok("dev\n"), Ok("gone\n")}
WindowIndexOutcomes == {FailSpawn, Ok("1\n")}
PaneIndexOutcomes == {FailExit, Ok("0\n")}

\* The session names callers ask for
SessionNames == {"dev", "ops", "de"}

\* The environments the callers run in
CallerEnvs ==
  {[NoEnv EXCEPT !.TERM_PROGRAM = "iTerm.app"],
   [NoEnv EXCEPT !.TMUX = "/tmp/tmux-501/default,1,0", !.TMUX_PANE = "%0"]}

\* The world in which the session-directory queries answer as given
CallerWorld(ls, sn, wi, pi) ==
  [DeadWorld EXCEPT !.listSessions = ls, !.sessionName = sn,
                    !.windowIndex = wi, !.paneIndex = pi]

InitCallers ==
  \E e \in CallerEnvs, ls \in ListSessionsOutcomes, sn \in CurrentSessionOutcomes,
     wi \in WindowIndexOutcomes, pi \in PaneIndexOutcomes :
    InitWith(e, CallerWorld(ls, sn, wi, pi))

\* await notifier.listSessions()
ListSessions ==
  /\ call' = listSessions(sys) @@ [op |-> "listSessions", opts |-> NoOptions]
  /\ UNCHANGED <<env, sys, appPath, defaultTitle, titleTask, notifs, pending, proc>>

\* await notifier.sessionExists(name)
SessionExists ==
  /\ \E name \in SessionNames :
       call' = sessionExists(sys, name) @@
               [op |-> "sessionExists", opts |-> NoOptions, arg |-> name]
  /\ UNCHANGED <<env, sys, appPath, defaultTitle, titleTask, notifs, pending, proc>>

\* await notifier.getCurrentTmuxInfo()
GetCurrentTmuxInfo ==
  /\ call' = getCurrentTmuxInfo(sys) @@ [op |-> "getCurrentTmuxInfo", opts |-> NoOptions]
  /\ UNCHANGED <<env, sys, appPath, defaultTitle, titleTask, notifs, pending, proc>>

\* notifier['appPath'] = '' on a notifier that has made no call yet
ClearAppPath ==
  /\ call = NoCall
  /\ appPath # ""
  /\ appPath' = ""
  /\ UNCHANGED <<env, sys, defaultTitle, titleTask, call, notifs, pending, proc>>

\* The tool names and the arguments of the tools/call requests
ToolNames ==
  {"send_notification", "list_tmux_sessions", "get_current_tmux_info", "no_such_tool"}

ToolArguments ==
  {<<>>,
   <<ToolArgs(JsStr("hi"), JsAbsent, JsAbsent, JsAbsent, JsAbsent, JsAbsent, FALSE)>>,
   <<ToolArgs(JsStr("hi"), JsAbsent, JsAbsent, JsStr("dev"), JsStr("1"), JsAbsent, FALSE)>>,
   <<ToolArgs(JsStr("hi"), JsAbsent, JsAbsent, JsStr("de"), JsAbsent, JsAbsent, FALSE)>>,
   <<ToolArgs(JsStr("hi"), JsAbsent, JsAbsent, JsStr("ops"), JsStr("2"), JsStr("3"), TRUE)>>,
   <<ToolArgs(JsStr("hi"), JsStr("Build"), JsStr("Ping"), JsAbsent, JsAbsent, JsAbsent, TRUE)>>,
   <<ToolArgs(JsStr(""), JsStr("Build"), JsAbsent, JsStr("dev"), JsAbsent, JsAbsent, FALSE)>>,
   <<ToolArgs(JsNum(123), JsBool(TRUE), JsAbsent, JsAbsent, JsNum(456), JsNull, FALSE)>>,
   <<ToolArgs(JsStr("hi"), JsNull, JsStr("Ping"), JsStr("dev"), JsNum(0), JsNum(0), FALSE)>>,
   <<ToolArgs(JsStr("hi"), JsBool(FALSE), JsNum(7), JsStr("ops"), JsNum(2), JsNum(3), FALSE)>>,
   <<ToolArgs(JsNum(0), JsAbsent, JsAbsent, JsAbsent, JsAbsent, JsAbsent, FALSE)>>}

\* The argument lists the command line is run with
CliArguments ==
  {<<"-m", "hi">>,
   <<"-m", "hi", "-s", "dev", "-w", "1">>,
   <<"-m", "hi", "-s", "de">>,
   <<"-m", "hi", "--current-tmux">>,
   <<"--current-tmux", "-m", "hi", "-s", "ops", "-w", "2", "-p", "3">>,
   <<"-m", "hi", "-s", "ops", "-w", "2", "-p", "3", "--current-tmux">>,
   <<"-t", "Build", "-s", "dev">>,
   <<"--list-sessions">>,
   <<"-m", "hi", "-h">>}

\* The state after a caller has ended as r; a launch that succeeded has
\* started a process
CallerEnded(r, op, input, openSt) ==
  /\ call' = r @@ [op |-> op, opts |-> NoOptions, input |-> input]
  /\ notifs' = IF r.sent # <<>> /\ r.cmds # <<>> /\ openSt = "ok"
                  /\ r.cmds[Len(r.cmds)][1] = "/usr/bin/open"
               THEN Append(notifs, Launched(r.cmds[Len(r.cmds)], r.sent[1],
                                            r.cmds[Len(r.cmds)][12]))
               ELSE notifs
  /\ UNCHANGED <<env, sys, appPath, defaultTitle, titleTask, pending, proc>>

\* One tools/call request handled by the MCP server
ToolCall ==
  /\ notifs = <<>>
  /\ \E name \in ToolNames, args \in ToolArguments, openSt \in OpenOutcomes :
       CallerEnded(CallTool(env, sys, appPath, defaultTitle, name, args, openSt),
                   "callTool", <<name, args>>, openSt)

\* One run of the command line
CliRun ==
  /\ notifs = <<>>
  /\ \E args \in CliArguments, openSt \in OpenOutcomes :
       CallerEnded(CliMain(env, sys, appPath, defaultTitle, args, openSt),
                   "cli", args, openSt)

NextCallers ==
  \/ ListSessions
  \/ SessionExists
  \/ GetCurrentTmuxInfo
  \/ ClearAppPath
  \/ SendFirst
  \/ ToolCall
  \/ CliRun

SpecCallers == InitCallers /\ [][NextCallers]_vars

(***************************************************************************)
(* Construction and the public operations.  The notifier is constructed    *)
(* with or without a custom path where none, one or both of the candidate  *)
(* paths exist; `call` starts as the record of the constructor call.       *)
(***************************************************************************)
CustomAppPaths == {Undefined, "", "/custom/path/to/MacOSNotifyMCP.app"}

Constructed(customAppPath) ==
  [NoCall EXCEPT !.op = "constructor"] @@ [input |-> <<customAppPath>>]

InitConstruct ==
  \E customAppPath \in CustomAppPaths, files \in SUBSET {PackageAppPath, CwdAppPath},
     ls \in {FailExit, Ok("dev\nops\n")} :
    /\ env = NoEnv
    /\ sys = [DeadWorld EXCEPT !.files = files, !.listSessions = ls]
    /\ appPath = ConstructAppPath(files, customAppPath)
    /\ defaultTitle = LiteralDefaultTitle
    /\ titleTask = TitleTaskStarted
    /\ call = Constructed(customAppPath)
    /\ notifs = <<>>
    /\ pending = <<>>
    /\ proc = NoProc

NextConstruct ==
  \/ GetTerminal
  \/ Send
  \/ ListSessions
  \/ SessionExists
  \/ GetCurrentTmuxInfo

SpecConstruct == InitConstruct /\ [][NextConstruct]_vars

\* At most this many data events arrive from one child process.
MaxChunks == 3

\* The commands runCommand is called with
RunCommands == {<<"tmux", "list-sessions">>, <<"/usr/bin/open", "-n", "/opt/MacOSNotifyMCP.app">>}

\* The chunks a stream delivers
Chunks == {"de", "v\n"}

\* The codes a child process closes with; ExitNull stands for null, the code
\* of a process ended by a signal
ExitNull == 256
ExitCodes == {0, 1, ExitNull}

\* The code of the close event that follows a failed spawn (-errno)
SpawnErrno == -2

\* The error of the 'error' event
SpawnError(command) ==
  [kind |-> "err", val |-> <<>>, msg |-> "spawn " \o command \o " ENOENT"]

\* The CommandError built by the close handler
CommandError(command, args, code, stdout, stderr) ==
  [kind |-> "err", val |-> <<>>,
   msg |-> "Command failed: " \o command \o " " \o Join(args, " ") \o "\n" \o stderr,
   code |-> IF code = ExitNull THEN <<>> ELSE <<code>>,
   stderr |-> stderr, stdout |-> stdout]

\* A promise that takes every settlement, the last one winning
SettleLast(result, r) == <<r>>

\* resolve(r) or reject(r) on a promise whose settlement so far is result:
\* only the first call settles it
SettleOnce(result, r) == IF result = <<>> THEN <<r>> ELSE result

\* runCommand(command, args): the promise is created, the process spawned
\* and the four handlers set
RunCommand ==
  /\ proc.st = "none"
  /\ \E cmd \in RunCommands, launches \in BOOLEAN :
       proc' = [NoProc EXCEPT !.st = IF launches THEN "running" ELSE "failing",
                              !.command = Head(cmd), !.args = Tail(cmd),
                              !.launches = launches, !.spawns = 1]
  /\ UNCHANGED <<env, sys, appPath, defaultTitle, titleTask, call, notifs, pending>>

\* proc.stdout.on('data')
StdoutData ==
  /\ proc.st = "running"
  /\ Len(proc.events) < MaxChunks
  /\ \E chunk \in Chunks :
       proc' = [proc EXCEPT !.stdout = @ \o chunk,
                            !.events = Append(@, <<"stdout", chunk>>)]
  /\ UNCHANGED <<env, sys, appPath, defaultTitle, titleTask, call, notifs, pending>>

\* proc.stderr.on('data')
StderrData ==
  /\ proc.st = "running"
  /\ Len(proc.events) < MaxChunks
  /\ \E chunk \in Chunks :
       proc' = [proc EXCEPT !.stderr = @ \o chunk,
                            !.events = Append(@, <<"stderr", chunk>>)]
  /\ UNCHANGED <<env, sys, appPath, defaultTitle, titleTask, call, notifs, pending>>

\* proc.on('error', reject): the process could not be launched
ErrorEvent ==
  /\ proc.st = "failing"
  /\ proc' = [proc EXCEPT !.st = "errored",
                          !.events = Append(@, <<"error">>),
                          !.calls = @ + 1,
                          !.result = SettleOnce(@, SpawnError(proc.command))]
  /\ UNCHANGED <<env, sys, appPath, defaultTitle, titleTask, call, notifs, pending>>

\* The close handler run with code
Closed(code) ==
  proc' = [proc EXCEPT
             !.st = "closed",
             !.events = Append(@, <<"close", code>>),
             !.calls = @ + 1,
             !.result = SettleOnce(@,
                          IF code = 0
                          THEN [kind |-> "ok", val |-> <<proc.stdout>>, msg |-> ""]
                          ELSE CommandError(proc.command, proc.args, code,
                                            proc.stdout, proc.stderr))]

\* proc.on('close'): after the streams of a launched process have ended, or
\* after the error event of one that could not be launched
CloseEvent ==
  /\ \/ proc.st = "running" /\ \E code \in ExitCodes : Closed(code)
     \/ proc.st = "errored" /\ Closed(SpawnErrno)
  /\ UNCHANGED <<env, sys, appPath, defaultTitle, titleTask, call, notifs, pending>>

InitRun == InitWith(NoEnv, DeadWorld)

NextRun ==
  \/ RunCommand
  \/ StdoutData
  \/ StderrData
  \/ ErrorEvent
  \/ CloseEvent

SpecRun == InitRun /\ [][NextRun]_vars

(***************************************************************************)
(* Properties                                                              *)
(***************************************************************************)

\* An environment variable counts as set when it has a non-empty value
IsSet(x) == x # Undefined /\ x # ""

\* No direct environment marker is set or recognised
NoDirectMarker(e) ==
  /\ ~IsSet(e.CURSOR_TRACE_ID) /\ ~IsSet(e.VSCODE_IPC_HOOK_CLI)
  /\ ~IsSet(e.VSCODE_REMOTE) /\ ~IsSet(e.VSCODE_PID)
  /\ ~IsSet(e.ALACRITTY_WINDOW_ID) /\ ~IsSet(e.ALACRITTY_SOCKET)
  /\ e.TERM_PROGRAM \notin {"iTerm.app", "Apple_Terminal", "alacritty"}

\* Every query the resolver can issue fails in world s
AllQueriesFail(s) ==
  /\ s.sessionName.st # "ok" /\ s.listClients.st # "ok"
  /\ s.clientTerm.st # "ok" /\ s.showEnv.st # "ok"
  /\ \A t \in DOMAIN s.lsof : s.lsof[t].st # "ok"
  /\ \A q \in DOMAIN s.psComm : s.psComm[q].st # "ok"
  /\ \A q \in DOMAIN s.psTree : s.psTree[q].st # "ok"

IsOpen(cmd) == cmd[1] = "/usr/bin/open"
IsPsTree(cmd) == cmd[1] = "ps" /\ cmd[5] = "ppid=,comm="

\* How many of the commands are launches of /usr/bin/open
OpenCount(cmds) == Cardinality({i \in 1..Len(cmds) : IsOpen(cmds[i])})

\* C1: getTerminalEmulator always resolves, with exactly one value of the
\* closed set TerminalType, whatever the markers are and however the
\* commands it issues end; it resolves with Unknown when no marker is
\* recognised and every query fails.
C1_ResolutionTotal ==
  call.op = "getTerminalEmulator" =>
    /\ call.kind = "ok"
    /\ Len(call.val) = 1
    /\ call.val[1] \in TerminalType
    /\ (NoDirectMarker(env) /\ AllQueriesFail(sys) => call.val[1] = "Unknown")

\* C1 witness: inside the multiplexer the termname query was issued and
\* failed, the process query failed too, and resolution ended with Unknown.
C1_Witness ==
  /\ call.op = "getTerminalEmulator"
  /\ call.val = <<"Unknown">>
  /\ sys.clientTerm.st # "ok"
  /\ \E i \in 1..Len(call.cmds) : call.cmds[i] = CmdClientTerm
  /\ \E i \in 1..Len(call.cmds) : IsPsTree(call.cmds[i])

\* C2: with a non-empty application path, sendNotification launches
\* /usr/bin/open exactly once, as its last command, whichever resolver
\* commands fail, and it rejects only when that launch fails.
C2_ResolverFailureNeverAborts ==
  call.op = "sendNotification" /\ appPath # "" =>
    /\ OpenCount(call.cmds) = 1
    /\ IsOpen(call.cmds[Len(call.cmds)])
    /\ (call.kind = "err" =>
          call.msg \in {"Command failed: /usr/bin/open", "spawn /usr/bin/open ENOENT"})

\* C2 witness: a send that resolved and launched the application although
\* the lsof query and the termname query of the resolver had failed before.
C2_Witness ==
  /\ call.op = "sendNotification"
  /\ call.kind = "ok"
  /\ sys.clientTerm.st # "ok"
  /\ \E i \in 1..Len(call.cmds) : call.cmds[i] = CmdClientTerm
  /\ \E i \in 1..Len(call.cmds) : call.cmds[i][1] = "lsof" /\ Outcome(sys, call.cmds[i]).st # "ok"
  /\ Len(notifs) = 1

\* The identity the specific IDE markers stand for, "" when none is set
IdeMarkerIdentity(e) ==
  IF IsSet(e.CURSOR_TRACE_ID) THEN "Cursor"
  ELSE IF IsSet(e.VSCODE_IPC_HOOK_CLI) /\ Includes(e.VSCODE_IPC_HOOK_CLI, "Cursor") THEN "Cursor"
  ELSE IF IsSet(e.VSCODE_IPC_HOOK_CLI) THEN "VSCode"
  ELSE IF IsSet(e.VSCODE_REMOTE) \/ IsSet(e.VSCODE_PID) THEN "VSCode"
  ELSE ""

\* The generic or the alacritty markers are set as well
GenericMarkerSet(e) ==
  \/ e.TERM_PROGRAM \in {"iTerm.app", "Apple_Terminal", "alacritty"}
  \/ IsSet(e.ALACRITTY_WINDOW_ID) \/ IsSet(e.ALACRITTY_SOCKET)

\* C5: when a specific IDE marker is set, the resolver returns the identity
\* of the highest-priority one (CURSOR_TRACE_ID, then VSCODE_IPC_HOOK_CLI by
\* its value, then VSCODE_REMOTE/VSCODE_PID), whatever TERM_PROGRAM and the
\* alacritty markers say.
C5_MarkerPriority ==
  call.op = "getTerminalEmulator" /\ IdeMarkerIdentity(env) # "" =>
    call.kind = "ok" /\ call.val = <<IdeMarkerIdentity(env)>>

\* C5 witness: VSCODE_IPC_HOOK_CLI of VS Code together with
\* TERM_PROGRAM=iTerm.app and an alacritty marker resolved to VSCode.
C5_Witness ==
  /\ call.op = "getTerminalEmulator"
  /\ ~IsSet(env.CURSOR_TRACE_ID)
  /\ env.VSCODE_IPC_HOOK_CLI = "/tmp/vscode-ipc-1.sock"
  /\ env.TERM_PROGRAM = "iTerm.app"
  /\ IsSet(env.ALACRITTY_SOCKET)
  /\ call.val = <<"VSCode">>

\* The identity strategy 1 concludes with when no IDE marker is set
PlainMarkerIdentity(e) ==
  IF IsSet(e.ALACRITTY_WINDOW_ID) \/ IsSet(e.ALACRITTY_SOCKET) THEN "alacritty"
  ELSE IF e.TERM_PROGRAM = "iTerm.app" THEN "iTerm2"
  ELSE IF e.TERM_PROGRAM = "Apple_Terminal" THEN "Terminal"
  ELSE IF e.TERM_PROGRAM = "alacritty" THEN "alacritty"
  ELSE ""

\* C6: when the environment markers are conclusive the resolver issues no
\* command at all, and a send issues only the launch; with only alacritty
\* markers or TERM_PROGRAM set the identity is the one they stand for,
\* whatever the outcomes of the tmux, lsof and ps commands would be.
C6_MarkerNeedsNoCommand ==
  ~NoDirectMarker(env) =>
    /\ (call.op = "getTerminalEmulator" => call.cmds = <<>>)
    /\ (call.op = "sendNotification" => Len(call.cmds) = 1 /\ IsOpen(call.cmds[1]))
    /\ (call.op # "none" /\ IdeMarkerIdentity(env) = "" =>
          call.val = <<PlainMarkerIdentity(env)>>)

\* C6 witness: only ALACRITTY_SOCKET is set next to TMUX and TMUX_PANE, in a
\* world whose multiplexer and process queries would all succeed and point
\* to VS Code; the resolver returned alacritty without a command.
C6_Witness ==
  /\ call.op = "getTerminalEmulator"
  /\ IsSet(env.ALACRITTY_SOCKET) /\ ~IsSet(env.ALACRITTY_WINDOW_ID)
  /\ IdeMarkerIdentity(env) = "" /\ env.TERM_PROGRAM = Undefined
  /\ IsSet(env.TMUX) /\ IsSet(env.TMUX_PANE)
  /\ sys = CodeWorld
  /\ call.val = <<"alacritty">>
  /\ call.cmds = <<>>

\* The five-terminal table the claims refer to, on a command name
FiveTerminalTable(command) ==
  IF command = Undefined THEN "Unknown"
  ELSE IF Includes(command, "Cursor") THEN "Cursor"
  ELSE IF Includes(command, "Code") THEN "VSCode"
  ELSE IF Includes(command, "iTerm2") THEN "iTerm2"
  ELSE IF Includes(command, "Terminal") THEN "Terminal"
  ELSE IF Includes(command, "alacritty") THEN "alacritty"
  ELSE "Unknown"

RECURSIVE AncestorTerminal(_, _, _)

\* The process with parent id ppid and command name command, hops hops away
AncestorStep(s, hops, ppid, command) ==
  IF FiveTerminalTable(command) # "Unknown" THEN FiveTerminalTable(command)
  ELSE IF ppid = NaN \/ ppid = 0 \/ ppid = 1 THEN "Unknown"
  ELSE AncestorTerminal(s, ppid, hops + 1)

AncestorParts(s, hops, parts) ==
  AncestorStep(s, hops, ParseInt(At(parts, 1)), At(parts, 2))

\* The identity of the first process from pid upwards, within the hop
\* bound, whose command name is in the five-terminal table
AncestorTerminal(s, pid, hops) ==
  IF hops >= maxDepth THEN "Unknown"
  ELSE IF Outcome(s, CmdPsTree(NatToString(pid))).st # "ok" THEN "Unknown"
  ELSE AncestorParts(s, hops, SplitSpaces(Trim(Outcome(s, CmdPsTree(NatToString(pid))).out)))

\* C7 (as claimed): with no environment marker and no multiplexer marker the
\* resolver returns the identity of the first process on the chain from the
\* caller upwards whose command name is in the five-terminal table,
\* alacritty included, also when that process is a child of pid 1.
C7_ProcessTreeFallback ==
  call.op = "getTerminalEmulator" /\ NoDirectMarker(env) /\ ~IsSet(env.TMUX) =>
    call.val = <<AncestorTerminal(sys, sys.pid, 0)>>

\* The clients the multiplexer lists, when both of its queries succeed
ClientsListed(s) ==
  /\ s.sessionName.st = "ok" /\ s.sessionName.out # ""
  /\ s.listClients.st = "ok"
  /\ Len(ParseClients(s.listClients.out)) > 0

\* The first client with the greatest activity
FirstMostActive(cs) ==
  cs[CHOOSE i \in 1..Len(cs) :
       /\ \A j \in 1..Len(cs) : cs[j].activity <= cs[i].activity
       /\ \A j \in 1..(i - 1) : cs[j].activity < cs[i].activity]

ActiveTty(s) == FirstMostActive(ParseClients(s.listClients.out)).tty

\* lsof lists the processes holding the active client's TTY
TtyListed(s) ==
  /\ ClientsListed(s)
  /\ ActiveTty(s) \in DOMAIN s.lsof
  /\ s.lsof[ActiveTty(s)].st = "ok"

PidsOf(lines) == [i \in 1..Len(lines) |-> At(SplitSpaces(lines[i]), 2)]

\* The process ids lsof lists for the active client's TTY, in its order
TtyPids(s) == PidsOf(LsofLines(SplitChar(Trim(s.lsof[ActiveTty(s)].out), "\n")))

\* The command name ps reports for pid, Undefined when the query fails
CommandOf(s, pid) ==
  IF pid \in DOMAIN s.psComm /\ s.psComm[pid].st = "ok"
  THEN Trim(s.psComm[pid].out) ELSE Undefined

\* A process holding the active client's TTY is named "Code Helper"
HeldByCodeHelper(s) ==
  /\ TtyListed(s)
  /\ \E k \in 1..Len(TtyPids(s)) : CommandOf(s, TtyPids(s)[k]) = "Code Helper"

\* ... and every process listed before it answers ps with a command name
\* that is not in the table
CodeHelperDecides(s) ==
  /\ TtyListed(s)
  /\ \E k \in 1..Len(TtyPids(s)) :
       /\ CommandOf(s, TtyPids(s)[k]) = "Code Helper"
       /\ \A j \in 1..(k - 1) :
            \/ TtyPids(s)[j] = Undefined
            \/ /\ CommandOf(s, TtyPids(s)[j]) # Undefined
               /\ FiveTerminalTable(CommandOf(s, TtyPids(s)[j])) = "Unknown"

\* VSCode through the TTY-process match: no process-tree query and no
\* client-termname or show-environment query was issued
ViaTtyMatch ==
  /\ call.kind = "ok" /\ call.val = <<"VSCode">>
  /\ \A i \in 1..Len(call.cmds) :
       /\ ~IsPsTree(call.cmds[i])
       /\ call.cmds[i] # CmdClientTerm
       /\ call.cmds[i] # CmdShowEnv

\* C8 (as claimed): no direct marker, TMUX set, a process holding the most
\* recently active client's TTY named "Code Helper": the resolver returns
\* VSCode through the TTY-process match.
C8_Original ==
  call.op = "getTerminalEmulator" /\ NoDirectMarker(env) /\ IsSet(env.TMUX)
    /\ HeldByCodeHelper(sys) => ViaTtyMatch

\* C8 (amended): the same when TMUX_PANE is set too and every process lsof
\* lists before the "Code Helper" one answers ps with a command name that
\* matches no entry of the terminal-name table.
C8_CodeHelperViaTtyMatch ==
  call.op = "getTerminalEmulator" /\ NoDirectMarker(env) /\ IsSet(env.TMUX)
    /\ IsSet(env.TMUX_PANE) /\ CodeHelperDecides(sys) => ViaTtyMatch

\* C8 witness: the active client's TTY lists a shell first and the
\* "Code Helper" second, and the resolver returned VSCode after the two ps
\* queries.
C8_Witness ==
  /\ call.op = "getTerminalEmulator"
  /\ NoDirectMarker(env) /\ IsSet(env.TMUX) /\ IsSet(env.TMUX_PANE)
  /\ CodeHelperDecides(sys)
  /\ CommandOf(sys, TtyPids(sys)[1]) = "-zsh"
  /\ call.val = <<"VSCode">>
  /\ call.cmds[Len(call.cmds)] = CmdPsComm("22")

\* The flags of the -s/-w/-p tail of a launch command (the eleven fixed
\* arguments come first)
TailFlags(cmd) == {cmd[k] : k \in {k \in 13..Len(cmd) : k % 2 = 1}}

\* The launch command of a settled sendNotification call
LaunchOf(c) == c.cmds[Len(c.cmds)]

\* The request names a session and a pane but no window
PaneWithoutWindow(o) == IsSet(o.session) /\ IsSet(o.pane) /\ ~IsSet(o.window)

\* C3 (as claimed): a request with a session and a pane but no window never
\* carries the pane in the arguments of the launch or in the stored
\* payload; in every launch pane present implies window present and window
\* present implies session present.
C3_CoordinateTruncation ==
  /\ call.op = "sendNotification" /\ call.cmds # <<>> /\ IsOpen(LaunchOf(call)) =>
       /\ PaneWithoutWindow(call.opts) => "-p" \notin TailFlags(LaunchOf(call))
       /\ "-p" \in TailFlags(LaunchOf(call)) => "-w" \in TailFlags(LaunchOf(call))
       /\ "-w" \in TailFlags(LaunchOf(call)) => "-s" \in TailFlags(LaunchOf(call))
  /\ \A i \in 1..Len(notifs) :
       /\ PaneWithoutWindow(notifs[i].request) => notifs[i].userInfo.pane = Nil
       /\ notifs[i].userInfo.pane # Nil => notifs[i].userInfo.window # Nil
       /\ notifs[i].userInfo.window # Nil => notifs[i].userInfo.session # Nil

\* C4 (as claimed): a sendNotification call with an empty or missing
\* message is rejected, and no command at all (no tmux, lsof, ps, no
\* /usr/bin/open) has been issued for it.
C4_EmptyMessageRejected ==
  call.op = "sendNotification" /\ ~IsSet(call.opts.message) =>
    call.kind = "err" /\ call.cmds = <<>>

\* The switch block of a clicked notification has run
SwitchRan(n) == n.st = "switched" \/ (n.st = "exited" /\ n.read.session # Nil)

IsSwitch(cmd) == Len(cmd) = 4 /\ cmd[2] = "switch-client"

SwitchesOf(n) == {k \in 1..Len(n.cmds) : IsSwitch(n.cmds[k])}

\* S, S:W or S:W.P according to the trailing fields of the request
ExpectedTarget(o) ==
  IF ~IsSet(o.window) THEN o.session
  ELSE IF ~IsSet(o.pane) THEN o.session \o ":" \o o.window
  ELSE o.session \o ":" \o o.window \o "." \o o.pane

\* The notification has been posted
Posted(n) == n.st \in {"displayed", "activated", "switched"} \/ SwitchRan(n)

\* C9: a posted notification of a request with session S, window W and no
\* pane embeds exactly session S and window W; once the switch block of a
\* clicked notification has run, the handler has issued no more than one
\* switch command, one exactly when a multiplexer executable was located,
\* and its target is S, S:W or S:W.P according to the trailing fields the
\* request has.
C9_PartialCoordinatesPreserved ==
  \A i \in 1..Len(notifs) :
    /\ Posted(notifs[i]) /\ IsSet(notifs[i].request.session)
         /\ IsSet(notifs[i].request.window) /\ ~IsSet(notifs[i].request.pane) =>
         /\ notifs[i].userInfo.session = notifs[i].request.session
         /\ notifs[i].userInfo.window = notifs[i].request.window
         /\ notifs[i].userInfo.pane = Nil
    /\ ~SwitchRan(notifs[i]) => SwitchesOf(notifs[i]) = {}
    /\ SwitchRan(notifs[i]) =>
         /\ Cardinality(SwitchesOf(notifs[i])) = IF notifs[i].tmuxPath = "" THEN 0 ELSE 1
         /\ \A k \in SwitchesOf(notifs[i]) :
              /\ notifs[i].cmds[k][1] = notifs[i].tmuxPath
              /\ notifs[i].cmds[k][3] = "-t"
              /\ notifs[i].cmds[k][4] = ExpectedTarget(notifs[i].request)

\* C9 witness: the request session "dev", window "1", no pane was posted
\* with that payload and clicked, and the one switch command went to "dev:1".
C9_Witness ==
  \E i \in 1..Len(notifs) :
    /\ SwitchRan(notifs[i])
    /\ notifs[i].request.session = "dev" /\ notifs[i].request.window = "1"
    /\ notifs[i].request.pane = Undefined
    /\ notifs[i].userInfo.session = "dev" /\ notifs[i].userInfo.window = "1"
    /\ notifs[i].userInfo.pane = Nil
    /\ \E k \in SwitchesOf(notifs[i]) : notifs[i].cmds[k][4] = "dev:1"

\* The click callback of the notification has run
WasClicked(n) ==
  n.st \in {"activated", "switched"} \/ (n.st = "exited" /\ n.read # NoUserInfo)

\* The coordinates sendNotification passes for request o
PassedSession(o) == IF IsSet(o.session) THEN o.session ELSE Nil
PassedWindow(o) == IF IsSet(o.session) /\ IsSet(o.window) THEN o.window ELSE Nil
PassedPane(o) == IF IsSet(o.session) /\ IsSet(o.pane) THEN o.pane ELSE Nil

\* C10: what the click callback of a notification reads is what was fixed
\* when that notification was dispatched: the terminal identity is the one
\* the resolver returned to sendNotification, the session, window and pane
\* are the ones sendNotification passed, and the activation acts on that
\* identity.
C10_ClickActsOnDispatchPayload ==
  \A i \in 1..Len(notifs) :
    WasClicked(notifs[i]) =>
      /\ notifs[i].read.terminal = notifs[i].resolved
      /\ notifs[i].read.session = PassedSession(notifs[i].request)
      /\ notifs[i].read.window = PassedWindow(notifs[i].request)
      /\ notifs[i].read.pane = PassedPane(notifs[i].request)
      /\ notifs[i].cmds[1] = activateTerminal(sys, notifs[i].resolved)

\* C10 witness: a clicked notification whose dispatch-time identity is not
\* the one the application would resolve from its own environment, and
\* which carries a session and a window.
C10_Witness ==
  \E i \in 1..Len(notifs) :
    /\ WasClicked(notifs[i])
    /\ notifs[i].read.terminal = notifs[i].resolved
    /\ notifs[i].resolved # detectTerminalEmulator(sys.appEnv, sys).val[1]
    /\ notifs[i].read.session = "dev" /\ notifs[i].read.window = "1"

\* The arguments the process of a call with request o and identity t gets
OwnArguments(o, t) ==
  <<"MacOSNotifyMCP",
    "-t", IF o.title = Undefined THEN LiteralDefaultTitle ELSE o.title,
    "-m", o.message,
    "--sound", IF o.sound = Undefined THEN "Glass" ELSE o.sound,
    "--terminal", t>>
  \o (IF IsSet(o.session) THEN <<"-s", o.session>> ELSE <<>>)
  \o (IF IsSet(o.session) /\ IsSet(o.window) THEN <<"-w", o.window>> ELSE <<>>)
  \o (IF IsSet(o.session) /\ IsSet(o.pane) THEN <<"-p", o.pane>> ELSE <<>>)

\* The process of a fulfilled call carries that call's values and no others
CarriesOwnContext(q) ==
  /\ q.proc \in 1..Len(notifs)
  /\ notifs[q.proc].argv = OwnArguments(q.request, q.terminal)
  /\ Posted(notifs[q.proc]) =>
       /\ notifs[q.proc].title =
            (IF q.request.title = Undefined THEN LiteralDefaultTitle ELSE q.request.title)
       /\ notifs[q.proc].body = q.request.message
       /\ notifs[q.proc].userInfo =
            [session |-> PassedSession(q.request), window |-> PassedWindow(q.request),
             pane |-> PassedPane(q.request), terminal |-> q.terminal]
  /\ WasClicked(notifs[q.proc]) => notifs[q.proc].read = notifs[q.proc].userInfo

\* Every fulfilled call has a process of its own with its own context
OwnProcessPerCall ==
  /\ \A k \in 1..Len(pending) :
       pending[k].st = "fulfilled" => CarriesOwnContext(pending[k])
  /\ \A k, l \in 1..Len(pending) :
       pending[k].st = "fulfilled" /\ pending[l].st = "fulfilled" /\ k # l =>
         pending[k].proc # pending[l].proc
  /\ Cardinality({k \in 1..Len(pending) : pending[k].st = "fulfilled"}) = Len(notifs)

\* A step touches one process at most and removes none
OneProcessPerStep ==
  /\ Len(notifs') >= Len(notifs)
  /\ \A i, j \in 1..Len(notifs) :
       notifs'[i] # notifs[i] /\ notifs'[j] # notifs[j] => i = j

\* C11: under every interleaving of the sendNotification calls and of the
\* clicks, each fulfilled call has launched a process of its own that
\* carries that call's title, message, identity and coordinates only; a
\* click reads the payload of the clicked notification and a step of one
\* process (its click, its switch, its exit) leaves every other process as
\* it was, displayed ones still displayed.
C11_ConcurrentNotificationsIndependent ==
  []OwnProcessPerCall /\ [][OneProcessPerStep]_vars

\* C11 witness: the second call begun was fulfilled first; its notification
\* was clicked and its process has exited, while the notification of the
\* first call, with another payload, is still displayed.
C11_Witness ==
  /\ Len(pending) = 2 /\ Len(notifs) = 2
  /\ pending[2].proc = 1 /\ pending[1].proc = 2
  /\ WasClicked(notifs[1]) /\ notifs[1].st = "exited"
  /\ notifs[1].read.session = "ops"
  /\ notifs[2].st = "displayed" /\ notifs[2].userInfo.session = "dev"

\* The resolver's result for call q, from the environment it was entered in
\* and the command outcomes at the time it ran
ResolvedDuring(q) == detectTerminalEmulator(q.envAt, q.sysAt[1])

\* C12: the identity a call passes to the launch is the resolver's result
\* computed during that call, whatever earlier calls resolved, and every
\* command of the resolution precedes the launch command, which is the last
\* command of the call.
C12_EverySendReResolves ==
  \A k \in 1..Len(pending) :
    pending[k].st # "resolving" /\ pending[k].cmds # <<>> =>
      /\ pending[k].terminal = ResolvedDuring(pending[k]).val[1]
      /\ IsOpen(LaunchOf(pending[k]))
      /\ LaunchOf(pending[k])[12] = ResolvedDuring(pending[k]).val[1]
      /\ SubSeq(pending[k].cmds, 1, Len(pending[k].cmds) - 1) =
           ResolvedDuring(pending[k]).cmds
      /\ \A i \in 1..(Len(pending[k].cmds) - 1) : ~IsOpen(pending[k].cmds[i])

\* C12 witness: two calls of one notifier settled with different
\* identities, the later one resolved by commands after the host changed.
C12_Witness ==
  /\ Len(pending) = 2
  /\ pending[1].st = "fulfilled" /\ pending[2].st = "fulfilled"
  /\ pending[1].terminal = "iTerm2" /\ pending[2].terminal = "VSCode"
  /\ Len(pending[2].cmds) > 1

\* C13: a sendNotification call on a notifier whose appPath is empty is
\* rejected with 'MacOSNotifyMCP.app not found'; it has issued no command,
\* neither of the resolver nor the launch, and started no process.
C13_NoAppPath ==
  call.op = "sendNotification" /\ appPath = "" =>
    /\ call.kind = "err"
    /\ call.msg = "MacOSNotifyMCP.app not found"
    /\ call.cmds = <<>>
    /\ notifs = <<>>

\* C13 witness: the call was rejected so in an environment where the
\* resolver would have had tmux to query.
C13_Witness ==
  /\ call.op = "sendNotification" /\ appPath = ""
  /\ IsSet(env.TMUX) /\ sys.sessionName.st = "ok"
  /\ call.kind = "err" /\ call.msg = "MacOSNotifyMCP.app not found"
  /\ call.cmds = <<>>

\* The non-empty lines of out, in their order
RECURSIVE NonEmptyLines(_, _, _)
NonEmptyLines(out, i, line) ==
  IF i > Len(out) THEN (IF line = "" THEN <<>> ELSE <<line>>)
  ELSE IF SubSeq(out, i, i) = "\n"
  THEN (IF line = "" THEN <<>> ELSE <<line>>) \o NonEmptyLines(out, i + 1, "")
  ELSE NonEmptyLines(out, i + 1, line \o SubSeq(out, i, i))

\* C14: listSessions always resolves, after the one list query: with the
\* empty sequence when the query fails (non-zero exit or spawn failure),
\* else with the non-empty lines of the output in the reported order.
C14_ListSessionsNeverThrows ==
  call.op = "listSessions" =>
    /\ call.kind = "ok"
    /\ call.cmds = <<CmdListSessions>>
    /\ sys.listSessions.st # "ok" => call.val = << <<>> >>
    /\ sys.listSessions.st = "ok" =>
         call.val = <<NonEmptyLines(sys.listSessions.out, 1, "")>>

\* C14 witness: the query could not be spawned and the call resolved with
\* the empty sequence.
C14_Witness ==
  /\ call.op = "listSessions"
  /\ sys.listSessions.st = "spawn"
  /\ call.kind = "ok" /\ call.val = << <<>> >>

\* C15: sessionExists(name) always resolves, with true exactly when name is
\* an element of what listSessions returns in the same world; with false
\* for every name when that is the empty sequence.
C15_SessionExistsIsMembership ==
  call.op = "sessionExists" =>
    /\ call.kind = "ok"
    /\ call.val[1] = (call.arg \in {listSessions(sys).val[1][i] :
                                      i \in 1..Len(listSessions(sys).val[1])})
    /\ listSessions(sys).val[1] = <<>> => call.val = <<FALSE>>

\* C15 witness: "de" is not a session although "dev" is listed.
C15_Witness ==
  /\ call.op = "sessionExists" /\ call.arg = "de"
  /\ sys.listSessions = Ok("dev\nops\n")
  /\ call.val = <<FALSE>>

\* The three queries of getCurrentTmuxInfo in their order
CurrentQueries == <<CmdSessionName, CmdWindowIndex, CmdPaneIndex>>

\* How many of them are issued: up to and including the first that fails
QueriesIssued(s) ==
  IF s.sessionName.st # "ok" THEN 1
  ELSE IF s.windowIndex.st # "ok" THEN 2
  ELSE 3

AllThreeSucceed(s) ==
  s.sessionName.st = "ok" /\ s.windowIndex.st = "ok" /\ s.paneIndex.st = "ok"

\* C16: getCurrentTmuxInfo issues the session, window and pane queries in
\* that order and none after the first that fails; it resolves with null
\* when one fails and with the triple of the trimmed outputs when all
\* three succeed.
C16_CurrentInfoAllOrNothing ==
  call.op = "getCurrentTmuxInfo" =>
    /\ call.kind = "ok"
    /\ call.cmds = SubSeq(CurrentQueries, 1, QueriesIssued(sys))
    /\ ~AllThreeSucceed(sys) => call.val = <<>>
    /\ AllThreeSucceed(sys) =>
         call.val = <<[session |-> Trim(sys.sessionName.out),
                       window |-> Trim(sys.windowIndex.out),
                       pane |-> Trim(sys.paneIndex.out)]>>

\* C16 witness: the session query succeeded, the window query failed: null,
\* and the pane query was not issued.
C16_Witness ==
  /\ call.op = "getCurrentTmuxInfo"
  /\ sys.sessionName.st = "ok" /\ sys.windowIndex.st # "ok" /\ sys.paneIndex.st = "ok"
  /\ call.val = <<>>
  /\ call.cmds = <<CmdSessionName, CmdWindowIndex>>

\* The sessions the multiplexer lists in world s
ListedSessions(s) ==
  IF s.listSessions.st # "ok" THEN {}
  ELSE {NonEmptyLines(s.listSessions.out, 1, "")[i] :
          i \in 1..Len(NonEmptyLines(s.listSessions.out, 1, ""))}

StartsWith(str, prefix) ==
  Len(str) >= Len(prefix) /\ SubSeq(str, 1, Len(prefix)) = prefix

\* The word after the first occurrence of flag, Undefined when there is none
FlagValue(args, flag) ==
  IF \E i \in 1..(Len(args) - 1) : args[i] = flag
  THEN args[(CHOOSE i \in 1..(Len(args) - 1) :
               args[i] = flag /\ \A j \in 1..(i - 1) : args[j] # flag) + 1]
  ELSE Undefined

InArgs(args, word) == \E i \in 1..Len(args) : args[i] = word

\* The last call was the send_notification tool with an arguments object
\* that has a message
IsMcpSend ==
  /\ call.op = "callTool"
  /\ call.input[1] = "send_notification"
  /\ call.input[2] # <<>>
  /\ JsTruthy(call.input[2][1].message)

\* The last call was a run of the command line that has a message and asks
\* neither for help nor for the session list
IsCliSend ==
  /\ call.op = "cli"
  /\ ~InArgs(call.input, "-h") /\ ~InArgs(call.input, "--help")
  /\ ~InArgs(call.input, "--list-sessions")
  /\ IsSet(FlagValue(call.input, "-m"))

NoLaunch == \A i \in 1..Len(call.cmds) : ~IsOpen(call.cmds[i])

ListQueries == Cardinality({i \in 1..Len(call.cmds) : call.cmds[i] = CmdListSessions})

\* C17: when the MCP send_notification tool or the command line names a
\* session that sessionExists reports as missing, sendNotification is not
\* called and nothing is launched; the tool returns an error text and the
\* command line exits with code 1.  sendNotification issues no
\* list-sessions query itself: the only one of a request that reaches it
\* is the caller's sessionExists.
C17_CallerSideValidation ==
  /\ IsMcpSend /\ ~call.input[2][1].useCurrent /\ JsTruthy(call.input[2][1].session)
       /\ JsString(call.input[2][1].session) \notin ListedSessions(sys) =>
       /\ call.sent = <<>> /\ NoLaunch
       /\ call.kind = "ok"
       /\ StartsWith(call.val[1], "Error: Session '" \o JsString(call.input[2][1].session)
                                    \o "' does not exist")
  /\ IsCliSend /\ ~InArgs(call.input, "--current-tmux")
       /\ IsSet(FlagValue(call.input, "-s"))
       /\ FlagValue(call.input, "-s") \notin ListedSessions(sys) =>
       /\ call.sent = <<>> /\ NoLaunch
       /\ call.kind = "exit" /\ call.val = <<1>>
  /\ call.op = "sendNotification" => ListQueries = 0
  /\ call.op \in {"callTool", "cli"} /\ call.sent # <<>> =>
       ListQueries = IF IsSet(call.sent[1].session) THEN 1 ELSE 0

\* C17 witness: the tool was asked for session "de" while "dev" and "ops"
\* exist; it answered with the error text after the two list queries.
C17_Witness ==
  /\ IsMcpSend /\ call.input[2][1].session = JsStr("de") /\ ~call.input[2][1].useCurrent
  /\ sys.listSessions = Ok("dev\nops\n")
  /\ call.sent = <<>>
  /\ call.val = <<"Error: Session 'de' does not exist. Available sessions: dev, ops">>
  /\ call.cmds = <<CmdListSessions, CmdListSessions>>

\* The coordinates of the current location, or none
CurrentCoordinates(s) ==
  IF AllThreeSucceed(s)
  THEN <<Trim(s.sessionName.out), Trim(s.windowIndex.out), Trim(s.paneIndex.out)>>
  ELSE <<Undefined, Undefined, Undefined>>

\* What a use-current request hands to sendNotification
UsesCurrentOnly ==
  /\ call.sent # <<>> =>
       <<call.sent[1].session, call.sent[1].window, call.sent[1].pane>>
         = CurrentCoordinates(sys)
  /\ ~AllThreeSucceed(sys) => call.sent # <<>>

\* C18 (as claimed): with the use-current option set (MCP useCurrent, CLI
\* --current-tmux) the coordinates passed to sendNotification are the
\* triple getCurrentTmuxInfo returns, or none when it returns null, in which
\* case the notification is still sent; session, window and pane values of
\* the same request never reach sendNotification, wherever they stand among
\* the arguments.
C18_UseCurrentCoordinates ==
  /\ IsMcpSend /\ call.input[2][1].useCurrent => UsesCurrentOnly
  /\ IsCliSend /\ InArgs(call.input, "--current-tmux") => UsesCurrentOnly

\* C19 (as claimed): whatever the tool name and the arguments, the tool-call
\* handler does not throw: it returns one text item, which is
\* 'Error: <message>' when the tool is unknown or the notifier operation
\* failed.
C19_HandlerReportsFailuresAsValues ==
  call.op = "callTool" =>
    /\ call.kind = "ok"
    /\ Len(call.val) = 1
    /\ call.input[1] \notin {"send_notification", "list_tmux_sessions",
                             "get_current_tmux_info"} =>
         call.val = <<"Error: Unknown tool: " \o call.input[1]>>
    /\ call.sent # <<>> /\ (NoLaunch \/ notifs = <<>>) =>
         StartsWith(call.val[1], "Error: ")

\* The chunks of stream that have arrived, concatenated in arrival order
RECURSIVE Arrived(_, _)
Arrived(events, stream) ==
  IF events = <<>> THEN ""
  ELSE (IF Head(events)[1] = stream THEN Head(events)[2] ELSE "")
       \o Arrived(Tail(events), stream)

\* The code the process closed with
CloseCode(p) == p.events[Len(p.events)][2]

\* The promise of a runCommand call whose process has closed is settled,
\* and a settled promise holds what the claim says it holds
SettledAsClaimed ==
  /\ proc.st # "none" => proc.spawns = 1
  /\ proc.st = "closed" => proc.result # <<>>
  /\ proc.result # <<>> =>
       /\ proc.result[1].kind = "ok" <=>
            (proc.launches /\ proc.st = "closed" /\ CloseCode(proc) = 0)
       /\ proc.result[1].kind = "ok" =>
            proc.result[1].val = <<Arrived(proc.events, "stdout")>>
       /\ proc.launches /\ proc.result[1].kind = "err" =>
            /\ proc.st = "closed"
            /\ proc.result[1].code =
                 (IF CloseCode(proc) = ExitNull THEN <<>> ELSE <<CloseCode(proc)>>)
            /\ proc.result[1].stdout = Arrived(proc.events, "stdout")
            /\ proc.result[1].stderr = Arrived(proc.events, "stderr")
       /\ ~proc.launches => proc.result[1] = SpawnError(proc.command)

\* A settled promise stays as it is and no second process is spawned
SettlesOnce ==
  /\ proc.result # <<>> => proc'.result = proc.result
  /\ proc.spawns = 1 => proc'.spawns = 1

\* C20: a runCommand call spawns one process and never another; its promise
\* is settled once the process has closed and, once settled, never changes,
\* in whatever order the data, error and close events arrive; it is
\* fulfilled, with the stdout chunks concatenated in arrival order, exactly
\* when the process closes with code 0; it is rejected with an error that
\* carries the code, stderr and stdout on any other close, and with the
\* spawn error when the process could not be launched.
C20_CommandRunnerSettlesOnce ==
  []SettledAsClaimed /\ [][SettlesOnce]_vars

\* C20 witness: the process could not be launched; the error event rejected
\* the promise and the close event that followed called reject a second
\* time without effect.
C20_Witness ==
  /\ proc.st = "closed" /\ ~proc.launches
  /\ proc.calls = 2
  /\ proc.result = <<SpawnError(proc.command)>>

\* The title and the sound among the fixed arguments of a launch command
TitleOf(cmd) == cmd[6]
SoundOf(cmd) == cmd[10]

ExpectedRepoName(s) ==
  CASE s.gitRemote = Ok("https://github.com/acme/web-app.git\n") -> <<"web-app">>
    [] s.gitRemote = Ok("git@github.com:acme/web_app\n") -> <<"web_app">>
    [] s.gitRemote.st # "ok" -> <<>>
    [] OTHER -> IF s.gitRoot = Ok("/Users/me/src/notes\n") THEN <<"notes">> ELSE <<>>

\* The default title a call entered at task position at is to use
ExpectedDefault(s, at) ==
  IF at = "done" /\ ExpectedRepoName(s) # <<>> THEN ExpectedRepoName(s)[1]
  ELSE LiteralDefaultTitle

IsGit(cmd) == cmd[1] = "git"

\* The call has reached its launch
Launching(q) == q.st \in {"fulfilled", "rejected"} /\ q.cmds # <<>>

C22_AfterResolution ==
  \E k \in 1..Len(pending) :
    /\ pending[k].request.title = Undefined
    /\ pending[k].taskAt = "done"
    /\ pending[k].st = "fulfilled"
    /\ TitleOf(LaunchOf(pending[k])) = "web-app"

\* The application each identity stands for
PreferredApplication ==
  [t \in {"VSCode", "Cursor", "iTerm2", "Terminal", "alacritty"} |->
     CASE t = "VSCode" -> "Visual Studio Code"
       [] t = "Cursor" -> "Cursor"
       [] t = "iTerm2" -> "iTerm2"
       [] t = "Terminal" -> "Terminal"
       [] t = "alacritty" -> "Alacritty"]

\* The first application of the order that is running, the baseline
\* Terminal when none is
RECURSIVE FirstRunning(_, _)
FirstRunning(order, running) ==
  IF order = <<>> THEN "Terminal"
  ELSE IF Head(order) \in running THEN Head(order)
  ELSE FirstRunning(Tail(order), running)

\* The application a click with the embedded identity is to activate
ActivationTarget(identity, running) ==
  IF identity \in DOMAIN PreferredApplication /\ PreferredApplication[identity] \in running
  THEN PreferredApplication[identity]
  ELSE FirstRunning(<<"Alacritty", "iTerm2", "WezTerm", "Terminal",
                      "Visual Studio Code", "Cursor">>, running)

IsActivate(cmd) == cmd[1] = "/usr/bin/osascript"

ActivationsOf(n) == {k \in 1..Len(n.cmds) : IsActivate(n.cmds[k])}

ClickedWithCoordinates(n) == WasClicked(n) /\ n.read.session # Nil

\* C24: for a clicked notification that embeds coordinates the first
\* command is the activation; no switch command exists before the delayed
\* block has run; the process has exited only after the delayed block ran
\* ahead of the exit block; and the switch command, one exactly when a
\* multiplexer executable was located, follows the activation.
C24_ClickOrdering ==
  \A i \in 1..Len(notifs) :
    ClickedWithCoordinates(notifs[i]) =>
      /\ IsActivate(notifs[i].cmds[1])
      /\ \A k \in SwitchesOf(notifs[i]) : k > 1
      /\ notifs[i].fired = <<>> => SwitchesOf(notifs[i]) = {}
      /\ notifs[i].fired # <<>> => notifs[i].fired[1] = "switch"
      /\ notifs[i].st = "exited" =>
           /\ notifs[i].fired = <<"switch", "exit">>
           /\ Cardinality(SwitchesOf(notifs[i])) =
                IF findTmuxPath(sys) = "" THEN 0 ELSE 1

\* C24 witness: the process of a clicked notification with coordinates has
\* exited after issuing the activation and then the switch command.
C24_Witness ==
  \E i \in 1..Len(notifs) :
    /\ ClickedWithCoordinates(notifs[i])
    /\ notifs[i].st = "exited"
    /\ Len(notifs[i].cmds) = 2
    /\ IsActivate(notifs[i].cmds[1])
    /\ IsSwitch(notifs[i].cmds[2])

\* The delayed block of the notification has run
SwitchBlockRan(n) == \E k \in 1..Len(n.fired) : n.fired[k] = "switch"

\* What click handling leaves behind, whatever its commands did: the
\* activation stays the first command issued, a switch command exists only
\* for embedded coordinates and a located executable, nothing is printed
\* after "Notification sent", and the exit status is 0.
ClickIsSilent ==
  \A i \in 1..Len(notifs) :
    WasClicked(notifs[i]) =>
      /\ IsActivate(notifs[i].cmds[1])
      /\ Len(notifs[i].results) = Len(notifs[i].cmds)
      /\ notifs[i].read.session = Nil => SwitchesOf(notifs[i]) = {}
      /\ findTmuxPath(sys) = "" => SwitchesOf(notifs[i]) = {}
      /\ SwitchBlockRan(notifs[i]) /\ findTmuxPath(sys) # "" =>
           Cardinality(SwitchesOf(notifs[i])) = 1
      /\ notifs[i].out = <<"Notification sent">>
      /\ notifs[i].st = "exited" => notifs[i].code = "0"

\* The process of notification i handles a click
Handling(i) == i <= Len(notifs) /\ notifs[i].st \in {"activated", "switched"}

HandlerExited(i) == i <= Len(notifs) /\ notifs[i].st = "exited"

\* C25: a process that handles a click eventually exits, whichever of the
\* activation, the lookup of the multiplexer executable and the switch
\* command fail; click handling issues no switch command without embedded
\* coordinates or without a located executable, leaves the activation
\* issued when the switch fails, prints nothing and exits with status 0.
C25_ClickHandlingTerminatesSilently ==
  /\ []ClickIsSilent
  /\ \A i \in 1..MaxNotifs : Handling(i) ~> HandlerExited(i)

\* C25 witness: the process of a clicked notification with coordinates has
\* exited with status 0 although both the activation and the switch
\* command failed.
C25_Witness ==
  \E i \in 1..Len(notifs) :
    /\ WasClicked(notifs[i])
    /\ notifs[i].st = "exited" /\ notifs[i].code = "0"
    /\ Len(notifs[i].cmds) = 2 /\ IsSwitch(notifs[i].cmds[2])
    /\ notifs[i].results = <<FALSE, FALSE>>
    /\ notifs[i].out = <<"Notification sent">>

\* A clicked notification with coordinates whose process exited after the
\* lookup of the multiplexer executable had failed
C25_LookupFailed ==
  \E i \in 1..Len(notifs) :
    /\ ClickedWithCoordinates(notifs[i])
    /\ notifs[i].st = "exited"
    /\ findTmuxPath(sys) = ""
    /\ Len(notifs[i].cmds) = 1

\* The resolver reaches the client listing and the listing succeeds
ListingAnswered(e, s) ==
  /\ NoDirectMarker(e) /\ IsSet(e.TMUX) /\ IsSet(e.TMUX_PANE)
  /\ s.sessionName.st = "ok" /\ s.sessionName.out # ""
  /\ s.listClients.st = "ok"

IsListClients(cmd) == cmd[1] = "tmux" /\ cmd[2] = "list-clients"
IsLsof(cmd) == cmd[1] = "lsof"

LsofsOf(cmds) == {k \in 1..Len(cmds) : IsLsof(cmds[k])}

\* C26: when the client listing succeeds, the resolver inspects the TTY of
\* exactly one client: the one with the greatest activity, the first listed
\* among those that share it; when the listing names no client the step
\* selects nothing, the resolver inspects no TTY, goes on to the client
\* terminal-name query and resolves.
C26_ActiveClientSelection ==
  call.op = "getTerminalEmulator" /\ ListingAnswered(env, sys) =>
    /\ call.kind = "ok"
    /\ \E k \in 1..(Len(call.cmds) - 1) :
         /\ IsListClients(call.cmds[k])
         /\ IF Len(ParseClients(sys.listClients.out)) = 0
            THEN /\ call.cmds[k + 1] = CmdClientTerm
                 /\ LsofsOf(call.cmds) = {}
            ELSE /\ call.cmds[k + 1] = CmdLsof(ActiveTty(sys))
                 /\ LsofsOf(call.cmds) = {k + 1}

\* C26 witness: two clients share the greatest activity, /dev/ttys002
\* listed first, and the resolver inspected /dev/ttys002.
C26_Witness ==
  /\ call.op = "getTerminalEmulator" /\ ListingAnswered(env, sys)
  /\ sys.listClients.out = "/dev/ttys002|dev|1700000200\n/dev/ttys001|dev|1700000200\n"
  /\ \E k \in 1..Len(call.cmds) : call.cmds[k] = CmdLsof("/dev/ttys002")

\* The listing named no client and the resolver went on
C26_EmptyListing ==
  /\ call.op = "getTerminalEmulator" /\ ListingAnswered(env, sys)
  /\ Len(ParseClients(sys.listClients.out)) = 0
  /\ \E k \in 1..Len(call.cmds) : call.cmds[k] = CmdClientTerm

\* The positions of the commands of each step among the commands of a call
TermNameQueries(cmds) == {k \in 1..Len(cmds) : cmds[k] = CmdClientTerm}
ShowEnvQueries(cmds) == {k \in 1..Len(cmds) : cmds[k] = CmdShowEnv}
TreeQueries(cmds) == {k \in 1..Len(cmds) : IsPsTree(cmds[k])}

\* The client terminal-name step was reached and was inconclusive: its
\* query failed or its answer holds none of the known substrings
TermNameInconclusive(s, cmds) ==
  /\ TermNameQueries(cmds) # {}
  /\ \/ s.clientTerm.st # "ok"
     \/ /\ ~Includes(s.clientTerm.out, "iterm") /\ ~Includes(s.clientTerm.out, "iTerm")
        /\ ~Includes(s.clientTerm.out, "Apple_Terminal")

\* C27 (as claimed): inside the multiplexer the TTY queries come before the
\* client terminal-name query, that one before the global-environment
\* query, and that one before every process-tree query; the
\* global-environment query is issued whenever the terminal-name step was
\* reached and was inconclusive, also when its query failed; and no
\* process-tree query is issued unless the global-environment query was.
C27_StepsFallThrough ==
  call.op = "getTerminalEmulator" /\ NoDirectMarker(env) /\ IsSet(env.TMUX) =>
    /\ \A a \in LsofsOf(call.cmds), b \in TermNameQueries(call.cmds) : a < b
    /\ \A a \in TermNameQueries(call.cmds), b \in ShowEnvQueries(call.cmds) : a < b
    /\ \A a \in ShowEnvQueries(call.cmds), b \in TreeQueries(call.cmds) : a < b
    /\ TermNameInconclusive(sys, call.cmds) => ShowEnvQueries(call.cmds) # {}
    /\ TreeQueries(call.cmds) # {} => ShowEnvQueries(call.cmds) # {}

\* The part of C27 the resolver keeps: the order of the steps, and the
\* fall-through of every inconclusive step whose query did not fail
C27_OrderAndAnsweredFallThrough ==
  call.op = "getTerminalEmulator" /\ NoDirectMarker(env) /\ IsSet(env.TMUX) =>
    /\ \A a \in LsofsOf(call.cmds), b \in TermNameQueries(call.cmds) : a < b
    /\ \A a \in TermNameQueries(call.cmds), b \in ShowEnvQueries(call.cmds) : a < b
    /\ \A a \in ShowEnvQueries(call.cmds), b \in TreeQueries(call.cmds) : a < b
    /\ TermNameInconclusive(sys, call.cmds) /\ sys.clientTerm.st = "ok" =>
         ShowEnvQueries(call.cmds) # {}
    /\ TreeQueries(call.cmds) # {} /\ sys.clientTerm.st = "ok" =>
         ShowEnvQueries(call.cmds) # {}
    /\ sys.clientTerm.st # "ok" /\ TermNameQueries(call.cmds) # {} =>
         ShowEnvQueries(call.cmds) = {} /\ TreeQueries(call.cmds) # {}

\* The answer of the operating system to the process query for pid
TreeAnswer(s, pid) == IF pid \in DOMAIN s.psTree THEN s.psTree[pid] ELSE CmdFailed

\* The parent id and the command name in an answer
ReportedParent(s, pid) == ParseInt(At(SplitSpaces(Trim(TreeAnswer(s, pid).out)), 1))
ReportedCommand(s, pid) == At(SplitSpaces(Trim(TreeAnswer(s, pid).out)), 2)

\* The walk is to stop at the process: its query failed, or its parent id
\* is 0, 1 or not a number
WalkStopsAt(s, pid) ==
  \/ TreeAnswer(s, pid).st # "ok"
  \/ ReportedParent(s, pid) \in {NaN, 0, 1}

\* The command name of the process is in the table of the walk
WalkMatchesAt(s, pid) ==
  /\ ReportedCommand(s, pid) # Undefined
  /\ \E name \in {"Cursor", "Code", "code-insiders", "iTerm2", "Terminal"} :
       Includes(ReportedCommand(s, pid), name)

\* C28: a resolution that reaches the process-tree walk resolves; it issues
\* at most 10 process queries, the first for the caller, each further one
\* for the parent the previous answer reported, and none after a query that
\* failed or reported the parent 0, 1 or no number; it yields Unknown when
\* the walk stopped that way and when the tenth query gave no match, as it
\* does on a parent chain that leads back to the caller.
C28_ProcessTreeWalkTerminates ==
  call.op = "getTerminalEmulator" /\ TreeQueries(call.cmds) # {} =>
    /\ call.kind = "ok"
    /\ Cardinality(TreeQueries(call.cmds)) <= 10
    /\ Len(call.cmds) \in TreeQueries(call.cmds)
    /\ \A k \in TreeQueries(call.cmds) :
         /\ k - 1 \notin TreeQueries(call.cmds) => call.cmds[k][3] = NatToString(sys.pid)
         /\ k < Len(call.cmds) =>
              /\ k + 1 \in TreeQueries(call.cmds)
              /\ ~WalkStopsAt(sys, call.cmds[k][3])
              /\ call.cmds[k + 1][3] = NatToString(ReportedParent(sys, call.cmds[k][3]))
    /\ WalkStopsAt(sys, call.cmds[Len(call.cmds)][3]) => call.val = <<"Unknown">>
    /\ Cardinality(TreeQueries(call.cmds)) = 10
         /\ ~WalkMatchesAt(sys, call.cmds[Len(call.cmds)][3]) => call.val = <<"Unknown">>

\* C28 witness: the caller's parent reports the caller as its parent; the
\* walk went round the cycle, stopped after its tenth query and gave
\* Unknown.
C28_Witness ==
  /\ call.op = "getTerminalEmulator"
  /\ Cardinality(TreeQueries(call.cmds)) = 10
  /\ ReportedParent(sys, "100") = 50 /\ ReportedParent(sys, "50") = 100
  /\ call.cmds[Len(call.cmds)] = CmdPsTree("50")
  /\ call.val = <<"Unknown">>

\* The option names the send_notification tool takes from its arguments
McpFields == {"message", "title", "sound", "session", "window", "pane"}

\* The last call was the send_notification tool without useCurrent, and it
\* reached sendNotification
McpOwnSent ==
  /\ call.op = "callTool"
  /\ call.input[1] = "send_notification"
  /\ call.input[2] # <<>>
  /\ ~call.input[2][1].useCurrent
  /\ call.sent # <<>>

\* C29: when the send_notification tool is called without useCurrent, the
\* options it hands to sendNotification hold, for each of message, title,
\* sound, session, window and pane, the string form of the argument if the
\* argument is neither null nor absent, the number 0 included, and no
\* value otherwise.
C29_ArgumentsPassedAsStrings ==
  McpOwnSent =>
    \A f \in McpFields :
      call.sent[1][f] = IF call.input[2][1][f].t \in {"null", "undefined"}
                        THEN Undefined
                        ELSE JsString(call.input[2][1][f])

\* What the handler does: an argument that is truthy is handed over as its
\* string form, any other one (null, absent, 0, false, the empty string)
\* is left out.
C29_TruthyArgumentsPassedAsStrings ==
  McpOwnSent =>
    \A f \in McpFields :
      call.sent[1][f] = IF JsTruthy(call.input[2][1][f])
                        THEN JsString(call.input[2][1][f])
                        ELSE Undefined

\* The tool was given the numbers 123 and 456, the boolean true and null,
\* and handed over "123", "true" and "456" with no pane.
C29_Converted ==
  /\ McpOwnSent
  /\ call.input[2][1].message = JsNum(123)
  /\ call.sent[1] = Options("true", "123", Undefined, Undefined, "456", Undefined)

\* The tool was given the number 0 for window and pane of session "dev",
\* and handed over the session alone.
C29_ZeroDropped ==
  /\ McpOwnSent
  /\ call.input[2][1].window = JsNum(0) /\ call.input[2][1].pane = JsNum(0)
  /\ call.sent[1] = Options(Undefined, "hi", "Ping", "dev", Undefined, Undefined)

\* The candidate the constructor settles on where files exist
ExpectedCandidate(files) ==
  IF PackageAppPath \in files THEN PackageAppPath
  ELSE IF CwdAppPath \in files THEN CwdAppPath
  ELSE PackageAppPath

\* No sendNotification call was rejected for a missing application path
NotFoundUnreached ==
  call.op = "sendNotification" /\ call.kind = "err" =>
    call.msg # "MacOSNotifyMCP.app not found"

\* C30 as stated: the constructor leaves appPath equal to the custom path
\* whenever one is supplied, the empty one included, and equal to the
\* first existing candidate, or the package-relative one if none exists,
\* when none is supplied; unless the custom path is empty appPath is not
\* empty, and no sendNotification call is rejected as 'not found'.
C30_SuppliedPathUsedAsIs ==
  /\ call.op = "constructor" =>
       /\ call.input[1] # Undefined => appPath = call.input[1]
       /\ call.input[1] = Undefined => appPath = ExpectedCandidate(sys.files)
       /\ call.input[1] # "" => appPath # ""
  /\ NotFoundUnreached

\* C30: the constructor leaves appPath equal to the custom path when a
\* non-empty one is supplied, and otherwise, for no custom path and for the
\* empty one alike, equal to the first existing candidate, or the
\* package-relative one if none exists; so appPath is never empty, whatever
\* the custom path, and no sendNotification call of the constructed
\* notifier is rejected as 'not found'.
C30_PathResolution ==
  /\ call.op = "constructor" =>
       /\ call.input[1] \notin {Undefined, ""} => appPath = call.input[1]
       /\ call.input[1] \in {Undefined, ""} => appPath = ExpectedCandidate(sys.files)
  /\ appPath # ""
  /\ appPath \in {PackageAppPath, CwdAppPath} => appPath = ExpectedCandidate(sys.files)
  /\ NotFoundUnreached

\* C30 witness: no candidate exists and no usable custom path was given;
\* a sendNotification call went on to launch the package-relative
\* candidate and failed in the launch, not in the path test.
C30_Witness ==
  /\ call.op = "sendNotification"
  /\ sys.files = {}
  /\ appPath = PackageAppPath
  /\ call.kind = "err" /\ call.msg = "Command failed: /usr/bin/open"
  /\ call.cmds[Len(call.cmds)][3] = PackageAppPath

\* The constructor was given the empty path and took a candidate.
C30_EmptyCustomPath ==
  /\ call.op = "constructor"
  /\ call.input = <<"">>
  /\ appPath = CwdAppPath

====
